---- MODULE Spec2Model ----
(***************************************************************************)
(* SECEL (senees/secel): lexer, recursive-descent parser and closure       *)
(* evaluator of the statement  if(condition; expression; expression).      *)
(*                                                                         *)
(* Values, AST nodes and tokens are tagged tuples: <<"Null">>,             *)
(* <<"Bool", b>>, <<"Number", n>>, <<"Eq", lhs, rhs>>, ...                 *)
(* An evaluator closure built from an AST node is modelled by applying     *)
(* build_evaluator to the node, the environment of the call and the path   *)
(* of the node in the tree; it yields the returned Value together with the *)
(* list of closures (paths) that were invoked during the call.             *)
(***************************************************************************)
EXTENDS Integers, Sequences, FiniteSets, TLC

VARIABLES
  input,     \* Lexer.input: the characters of the source text
  position,  \* Lexer.position: the cursor
  result,    \* what Parser::parse returned, or NoResult
  ast,       \* the AstNode an evaluator was built from, or NoAst
  iv,        \* IndexedValues passed to the evaluator
  value,     \* Value returned by the last evaluator call, or NoValue
  calls,     \* closures invoked by the last evaluator call (paths, in order)
  pc         \* position of the caller in the pipeline

vars == <<input, position, result, ast, iv, value, calls, pc>>

(***************************************************************************)
(* Bounds of the model.                                                    *)
(***************************************************************************)
\* slots 0..MaxKey and the largest IndexKey are used as keys
MaxKey == 1
\* decimal numbers are drawn from 0..MaxNum
MaxNum == 1

(***************************************************************************)
(* values.rs                                                               *)
(***************************************************************************)
Value_Null == <<"Null">>

Value_Bool(b) == <<"Bool", b>>

Value_Number(n) == <<"Number", n>>

Decimal == 0..MaxNum

Value ==
  {Value_Null} \cup {Value_Bool(b) : b \in BOOLEAN} \cup {Value_Number(n) : n \in Decimal}

(***************************************************************************)
(* evaluator.rs: IndexKey, IndexedValues                                   *)
(***************************************************************************)
U8Max == 255

IndexKey == 0..U8Max

Keys == (0..MaxKey) \cup {U8Max}

IndexedValues == UNION {[D -> Value] : D \in SUBSET Keys}

(***************************************************************************)
(* ast.rs                                                                  *)
(***************************************************************************)
AstNode_Null == <<"Null">>

AstNode_Number(k) == <<"Number", k>>

AstNode_Binary(tag, lhs, rhs) == <<tag, lhs, rhs>>

AstNode_If(mhs, lhs, rhs) == <<"If", mhs, lhs, rhs>>

BinaryTags == {"And", "Or", "Eq", "Nq", "Ge", "Gt", "Le", "Lt"}

Leaves == {AstNode_Null} \cup {AstNode_Number(k) : k \in Keys}

\* every node whose operands are leaves
AstNodes ==
  Leaves
  \cup {AstNode_Binary(t, l, r) : t \in BinaryTags, l \in Leaves, r \in Leaves}
  \cup {AstNode_If(m, l, r) : m \in Leaves, l \in Leaves, r \in Leaves}

NoAst == <<"none">>

NoValue == <<"none">>

(***************************************************************************)
(* evaluator.rs: the closures                                              *)
(***************************************************************************)
Returned(v, log) == [v |-> v, calls |-> log]

IsBool(v) == v[1] = "Bool"

IsNumber(v) == v[1] = "Number"

IsNull(v) == v[1] = "Null"

RECURSIVE build_evaluator(_, _, _)

\* build_and deciding on a false left operand alone
build_and_shortcircuit(lhs, rhs, env, path) ==
  LET l == build_evaluator(lhs, env, Append(path, 1)) IN
  IF IsBool(l.v)
  THEN IF ~l.v[2]
       THEN Returned(Value_Bool(FALSE), <<path>> \o l.calls)
       ELSE LET r == build_evaluator(rhs, env, Append(path, 2)) IN
            IF IsBool(r.v)
            THEN Returned(Value_Bool(r.v[2]), <<path>> \o l.calls \o r.calls)
            ELSE Returned(Value_Null, <<path>> \o l.calls \o r.calls)
  ELSE Returned(Value_Null, <<path>> \o l.calls)

build_and(lhs, rhs, env, path) ==
  LET l == build_evaluator(lhs, env, Append(path, 1)) IN
  IF IsBool(l.v)
  THEN LET r == build_evaluator(rhs, env, Append(path, 2)) IN
       IF IsBool(r.v)
       THEN Returned(Value_Bool(l.v[2] /\ r.v[2]), <<path>> \o l.calls \o r.calls)
       ELSE Returned(Value_Null, <<path>> \o l.calls \o r.calls)
  ELSE Returned(Value_Null, <<path>> \o l.calls)

\* build_or deciding on a true left operand alone
build_or_shortcircuit(lhs, rhs, env, path) ==
  LET l == build_evaluator(lhs, env, Append(path, 1)) IN
  IF IsBool(l.v)
  THEN IF l.v[2]
       THEN Returned(Value_Bool(TRUE), <<path>> \o l.calls)
       ELSE LET r == build_evaluator(rhs, env, Append(path, 2)) IN
            IF IsBool(r.v)
            THEN Returned(Value_Bool(r.v[2]), <<path>> \o l.calls \o r.calls)
            ELSE Returned(Value_Null, <<path>> \o l.calls \o r.calls)
  ELSE Returned(Value_Null, <<path>> \o l.calls)

build_or(lhs, rhs, env, path) ==
  LET l == build_evaluator(lhs, env, Append(path, 1)) IN
  IF IsBool(l.v)
  THEN LET r == build_evaluator(rhs, env, Append(path, 2)) IN
       IF IsBool(r.v)
       THEN Returned(Value_Bool(l.v[2] \/ r.v[2]), <<path>> \o l.calls \o r.calls)
       ELSE Returned(Value_Null, <<path>> \o l.calls \o r.calls)
  ELSE Returned(Value_Null, <<path>> \o l.calls)

\* build_eq with a Null operand handled as the ordering operators handle it
build_eq_nullorder(lhs, rhs, env, path) ==
  LET l == build_evaluator(lhs, env, Append(path, 1)) IN
  IF IsNumber(l.v)
  THEN LET r == build_evaluator(rhs, env, Append(path, 2)) IN
       Returned(CASE IsNumber(r.v) -> Value_Bool(l.v[2] = r.v[2])
                  [] OTHER -> Value_Null,
                <<path>> \o l.calls \o r.calls)
  ELSE IF IsNull(l.v)
  THEN LET r == build_evaluator(rhs, env, Append(path, 2)) IN
       Returned(CASE IsNull(r.v) -> Value_Bool(TRUE)
                  [] OTHER -> Value_Null,
                <<path>> \o l.calls \o r.calls)
  ELSE Returned(Value_Null, <<path>> \o l.calls)

build_eq(lhs, rhs, env, path) ==
  LET l == build_evaluator(lhs, env, Append(path, 1)) IN
  IF IsNumber(l.v)
  THEN LET r == build_evaluator(rhs, env, Append(path, 2)) IN
       Returned(CASE IsNumber(r.v) -> Value_Bool(l.v[2] = r.v[2])
                  [] IsNull(r.v) -> Value_Bool(FALSE)
                  [] OTHER -> Value_Null,
                <<path>> \o l.calls \o r.calls)
  ELSE IF IsNull(l.v)
  THEN LET r == build_evaluator(rhs, env, Append(path, 2)) IN
       Returned(CASE IsNumber(r.v) -> Value_Bool(FALSE)
                  [] IsNull(r.v) -> Value_Bool(TRUE)
                  [] OTHER -> Value_Null,
                <<path>> \o l.calls \o r.calls)
  ELSE Returned(Value_Null, <<path>> \o l.calls)

build_nq(lhs, rhs, env, path) ==
  LET l == build_evaluator(lhs, env, Append(path, 1)) IN
  IF IsNumber(l.v)
  THEN LET r == build_evaluator(rhs, env, Append(path, 2)) IN
       Returned(CASE IsNumber(r.v) -> Value_Bool(l.v[2] # r.v[2])
                  [] IsNull(r.v) -> Value_Bool(TRUE)
                  [] OTHER -> Value_Null,
                <<path>> \o l.calls \o r.calls)
  ELSE IF IsNull(l.v)
  THEN LET r == build_evaluator(rhs, env, Append(path, 2)) IN
       Returned(CASE IsNumber(r.v) -> Value_Bool(TRUE)
                  [] IsNull(r.v) -> Value_Bool(FALSE)
                  [] OTHER -> Value_Null,
                <<path>> \o l.calls \o r.calls)
  ELSE Returned(Value_Null, <<path>> \o l.calls)

\* build_ge comparing strictly, as its doc comment ("`>` operator") reads
build_ge_strict(lhs, rhs, env, path) ==
  LET l == build_evaluator(lhs, env, Append(path, 1)) IN
  IF IsNumber(l.v)
  THEN LET r == build_evaluator(rhs, env, Append(path, 2)) IN
       IF IsNumber(r.v)
       THEN Returned(Value_Bool(l.v[2] > r.v[2]), <<path>> \o l.calls \o r.calls)
       ELSE Returned(Value_Null, <<path>> \o l.calls \o r.calls)
  ELSE Returned(Value_Null, <<path>> \o l.calls)

build_ge(lhs, rhs, env, path) ==
  LET l == build_evaluator(lhs, env, Append(path, 1)) IN
  IF IsNumber(l.v)
  THEN LET r == build_evaluator(rhs, env, Append(path, 2)) IN
       IF IsNumber(r.v)
       THEN Returned(Value_Bool(l.v[2] >= r.v[2]), <<path>> \o l.calls \o r.calls)
       ELSE Returned(Value_Null, <<path>> \o l.calls \o r.calls)
  ELSE Returned(Value_Null, <<path>> \o l.calls)

build_gt(lhs, rhs, env, path) ==
  LET l == build_evaluator(lhs, env, Append(path, 1)) IN
  IF IsNumber(l.v)
  THEN LET r == build_evaluator(rhs, env, Append(path, 2)) IN
       IF IsNumber(r.v)
       THEN Returned(Value_Bool(l.v[2] > r.v[2]), <<path>> \o l.calls \o r.calls)
       ELSE Returned(Value_Null, <<path>> \o l.calls \o r.calls)
  ELSE Returned(Value_Null, <<path>> \o l.calls)

build_le(lhs, rhs, env, path) ==
  LET l == build_evaluator(lhs, env, Append(path, 1)) IN
  IF IsNumber(l.v)
  THEN LET r == build_evaluator(rhs, env, Append(path, 2)) IN
       IF IsNumber(r.v)
       THEN Returned(Value_Bool(l.v[2] <= r.v[2]), <<path>> \o l.calls \o r.calls)
       ELSE Returned(Value_Null, <<path>> \o l.calls \o r.calls)
  ELSE Returned(Value_Null, <<path>> \o l.calls)

build_lt(lhs, rhs, env, path) ==
  LET l == build_evaluator(lhs, env, Append(path, 1)) IN
  IF IsNumber(l.v)
  THEN LET r == build_evaluator(rhs, env, Append(path, 2)) IN
       IF IsNumber(r.v)
       THEN Returned(Value_Bool(l.v[2] < r.v[2]), <<path>> \o l.calls \o r.calls)
       ELSE Returned(Value_Null, <<path>> \o l.calls \o r.calls)
  ELSE Returned(Value_Null, <<path>> \o l.calls)

\* build_if returning the condition's own value when it is Bool(true)
build_if_condition(mhs, lhs, rhs, env, path) ==
  LET m == build_evaluator(mhs, env, Append(path, 1)) IN
  IF IsBool(m.v)
  THEN IF m.v[2]
       THEN Returned(m.v, <<path>> \o m.calls)
       ELSE LET r == build_evaluator(rhs, env, Append(path, 3)) IN
            Returned(r.v, <<path>> \o m.calls \o r.calls)
  ELSE Returned(Value_Null, <<path>> \o m.calls)

\* build_if taking every condition that is not Bool(true) as false
build_if_falsy(mhs, lhs, rhs, env, path) ==
  LET m == build_evaluator(mhs, env, Append(path, 1)) IN
  IF m.v = Value_Bool(TRUE)
  THEN LET l == build_evaluator(lhs, env, Append(path, 2)) IN
       Returned(l.v, <<path>> \o m.calls \o l.calls)
  ELSE LET r == build_evaluator(rhs, env, Append(path, 3)) IN
       Returned(r.v, <<path>> \o m.calls \o r.calls)

build_if(mhs, lhs, rhs, env, path) ==
  LET m == build_evaluator(mhs, env, Append(path, 1)) IN
  IF IsBool(m.v)
  THEN IF m.v[2]
       THEN LET l == build_evaluator(lhs, env, Append(path, 2)) IN
            Returned(l.v, <<path>> \o m.calls \o l.calls)
       ELSE LET r == build_evaluator(rhs, env, Append(path, 3)) IN
            Returned(r.v, <<path>> \o m.calls \o r.calls)
  ELSE Returned(Value_Null, <<path>> \o m.calls)

build_null(env, path) ==
  Returned(Value_Null, <<path>>)

\* build_number returning a stored value only when it is a Number
build_number_numeric(key, env, path) ==
  Returned(IF key \in DOMAIN env /\ IsNumber(env[key]) THEN env[key] ELSE Value_Null,
           <<path>>)

\* build_number reading slot 0 when its own slot is absent
build_number_fallback(key, env, path) ==
  Returned(IF key \in DOMAIN env THEN env[key]
           ELSE IF 0 \in DOMAIN env THEN env[0] ELSE Value_Null,
           <<path>>)

build_number(key, env, path) ==
  Returned(IF key \in DOMAIN env THEN env[key] ELSE Value_Null, <<path>>)

build_evaluator(node, env, path) ==
  CASE node[1] = "And" -> build_and(node[2], node[3], env, path)
    [] node[1] = "Eq" -> build_eq(node[2], node[3], env, path)
    [] node[1] = "Ge" -> build_ge(node[2], node[3], env, path)
    [] node[1] = "Gt" -> build_gt(node[2], node[3], env, path)
    [] node[1] = "If" -> build_if(node[2], node[3], node[4], env, path)
    [] node[1] = "Le" -> build_le(node[2], node[3], env, path)
    [] node[1] = "Lt" -> build_lt(node[2], node[3], env, path)
    [] node[1] = "Nq" -> build_nq(node[2], node[3], env, path)
    [] node[1] = "Null" -> build_null(env, path)
    [] node[1] = "Number" -> build_number(node[2], env, path)
    [] node[1] = "Or" -> build_or(node[2], node[3], env, path)

(***************************************************************************)
(* lexer.rs                                                                *)
(***************************************************************************)
Token_And == <<"And">>

Token_Eof == <<"Eof">>

Token_Eq == <<"Eq">>

Token_Ge == <<"Ge">>

Token_Gt == <<"Gt">>

Token_If == <<"If">>

Token_Le == <<"Le">>

Token_LeftParen == <<"LeftParen">>

Token_Lt == <<"Lt">>

Token_Number(n) == <<"Number", n>>

Token_Null == <<"Null">>

Token_Nq == <<"Nq">>

Token_Or == <<"Or">>

Token_RightParen == <<"RightParen">>

Token_Semicolon == <<"Semicolon">>

Token_Undef == <<"Undef">>

WS == " "

BUF_SIZE == 4

\* is_whitespace knowing the space only
is_whitespace_space(ch) == ch = " "

is_whitespace(ch) == ch \in {"\t", "\n", "\f", "\r", " "}

DigitChars == <<"0", "1", "2", "3", "4", "5", "6", "7", "8", "9">>

is_digit(ch) == \E d \in 1..Len(DigitChars) : DigitChars[d] = ch

is_non_zero_digit(ch) == is_digit(ch) /\ ch # "0"

\* Option<char>: <<>> is None, <<ch>> is Some(ch)
char_at(text, pos, offset) ==
  IF pos + offset < Len(text) THEN <<text[pos + offset + 1]>> ELSE <<>>

RECURSIVE consume_whitespace(_, _)
\* the cursor after the whitespace at the cursor
consume_whitespace(text, pos) ==
  LET ch == char_at(text, pos, 0) IN
  IF ch # <<>> /\ is_whitespace(ch[1])
  THEN consume_whitespace(text, pos + 1)
  ELSE pos

read_input(text, pos) ==
  LET p == consume_whitespace(text, pos) IN
  [position |-> p,
   buffer |-> [offset \in 1..BUF_SIZE |->
                 LET ch == char_at(text, p, offset - 1) IN
                 IF ch # <<>> THEN ch[1] ELSE WS]]

RECURSIVE consume_digits(_, _, _)
consume_digits(text, pos, digits) ==
  LET ch == char_at(text, pos, 0) IN
  IF ch # <<>> /\ is_digit(ch[1])
  THEN consume_digits(text, pos + 1, Append(digits, ch[1]))
  ELSE [digits |-> digits, position |-> pos]

DigitValue(ch) == (CHOOSE d \in 1..Len(DigitChars) : DigitChars[d] = ch) - 1

RECURSIVE parse_IndexKey_wide(_, _)
\* digits.parse for an index type wider than u8: no numeral is refused
parse_IndexKey_wide(digits, acc) ==
  IF digits = <<>>
  THEN acc
  ELSE parse_IndexKey_wide(Tail(digits), acc * 10 + DigitValue(Head(digits)))

RECURSIVE parse_IndexKey(_, _)
\* digits.parse::<IndexKey>(): the number, or -1 for Err (empty, or above u8::MAX)
parse_IndexKey(digits, acc) ==
  IF digits = <<>>
  THEN acc
  ELSE LET next == acc * 10 + DigitValue(Head(digits)) IN
       IF next > U8Max THEN -1 ELSE parse_IndexKey(Tail(digits), next)

Lexed(token, pos) == [token |-> token, position |-> pos]

\* the `match chars` of next_token, r being what read_input returned
next_token_match(text, r) ==
  LET chars == r.buffer
      p == r.position
  IN
  IF chars = <<"n", "u", "l", "l">> THEN Lexed(Token_Null, p + 4)
  ELSE IF SubSeq(chars, 1, 3) = <<"a", "n", "d">> THEN Lexed(Token_And, p + 3)
  ELSE IF SubSeq(chars, 1, 2) = <<"i", "f">> THEN Lexed(Token_If, p + 2)
  ELSE IF SubSeq(chars, 1, 2) = <<"o", "r">> THEN Lexed(Token_Or, p + 2)
  ELSE IF SubSeq(chars, 1, 2) = <<"<", "=">> THEN Lexed(Token_Le, p + 2)
  ELSE IF SubSeq(chars, 1, 2) = <<">", "=">> THEN Lexed(Token_Ge, p + 2)
  ELSE IF SubSeq(chars, 1, 2) = <<"<", ">">> THEN Lexed(Token_Nq, p + 2)
  ELSE IF chars[1] = "=" THEN Lexed(Token_Eq, p + 1)
  ELSE IF chars[1] = "<" THEN Lexed(Token_Lt, p + 1)
  ELSE IF chars[1] = ">" THEN Lexed(Token_Gt, p + 1)
  ELSE IF chars[1] = ";" THEN Lexed(Token_Semicolon, p + 1)
  ELSE IF chars[1] = "(" THEN Lexed(Token_LeftParen, p + 1)
  ELSE IF chars[1] = ")" THEN Lexed(Token_RightParen, p + 1)
  ELSE IF is_non_zero_digit(chars[1])
  THEN LET d == consume_digits(text, p, <<>>)
           number == parse_IndexKey(d.digits, 0)
       IN
       IF number >= 0
       THEN Lexed(Token_Number(number), d.position)
       ELSE Lexed(Token_Undef, d.position)
  ELSE IF chars = <<WS, WS, WS, WS>> THEN Lexed(Token_Eof, p)
  ELSE Lexed(Token_Undef, p)

\* next_token returning the token and leaving the cursor where it was
next_token_peek(text, pos) ==
  Lexed(next_token_match(text, read_input(text, pos)).token, pos)

next_token(text, pos) == next_token_match(text, read_input(text, pos))

get_position(pos) == pos

\* set_position taking the end of the input for a position of the input
set_position_inclusive(text, pos, wanted) ==
  IF wanted \in 0..Len(text) THEN wanted ELSE pos

\* the cursor after set_position(wanted), pos being the cursor before
set_position(text, pos, wanted) ==
  IF wanted \in 0..(Len(text) - 1) THEN wanted ELSE pos

(***************************************************************************)
(* parser.rs: every rule takes the text and the lexer's cursor and returns *)
(* Ok(node) or Err(message) together with the cursor it leaves behind.     *)
(***************************************************************************)
NoErr == <<>>

NoResult == [ok |-> FALSE, node |-> NoAst, err |-> <<"none">>, position |-> 0]

Ok(node, pos) == [ok |-> TRUE, node |-> node, err |-> NoErr, position |-> pos]

\* SecelError::new(message): the message is kept as its parts
Err(message, pos) == [ok |-> FALSE, node |-> NoAst, err |-> message, position |-> pos]

\* the `?` operator: an Err is returned at once, an Ok value is handed on
Try(r, F(_)) == IF r.ok THEN F(r) ELSE r

\* `let v = e;` and the statements after it
Bind(v, F(_)) == F(v)

consume_token(text, pos, expected) ==
  Bind(next_token(text, pos), LAMBDA t :
    IF t.token = expected
    THEN Ok(NoAst, t.position)
    ELSE Err(<<"expected token", expected, "actual token", t.token>>,
             set_position(text, t.position, get_position(pos))))

\* parse_value leaving the cursor after the token it refuses
parse_value_consuming(text, pos) ==
  Bind(next_token(text, pos), LAMBDA t :
    IF t.token = Token_Null THEN Ok(AstNode_Null, t.position)
    ELSE IF t.token[1] = "Number" THEN Ok(AstNode_Number(t.token[2]), t.position)
    ELSE Err(<<"expected null or number but encountered", t.token>>, t.position))

parse_value(text, pos) ==
  Bind(next_token(text, pos), LAMBDA t :
    IF t.token = Token_Null THEN Ok(AstNode_Null, t.position)
    ELSE IF t.token[1] = "Number" THEN Ok(AstNode_Number(t.token[2]), t.position)
    ELSE Err(<<"expected null or number but encountered", t.token>>,
             set_position(text, t.position, get_position(pos))))

\* parse_comparison with the nodes of `>=` and `>` exchanged
parse_comparison_exchanged(text, pos) ==
  Try(parse_value(text, pos), LAMBDA left_op :
  Bind(next_token(text, left_op.position), LAMBDA comparison_token :
  Try(parse_value(text, comparison_token.position), LAMBDA right_op :
    IF comparison_token.token = Token_Eq
    THEN Ok(AstNode_Binary("Eq", left_op.node, right_op.node), right_op.position)
    ELSE IF comparison_token.token = Token_Nq
    THEN Ok(AstNode_Binary("Nq", left_op.node, right_op.node), right_op.position)
    ELSE IF comparison_token.token = Token_Ge
    THEN Ok(AstNode_Binary("Gt", left_op.node, right_op.node), right_op.position)
    ELSE IF comparison_token.token = Token_Gt
    THEN Ok(AstNode_Binary("Ge", left_op.node, right_op.node), right_op.position)
    ELSE IF comparison_token.token = Token_Le
    THEN Ok(AstNode_Binary("Le", left_op.node, right_op.node), right_op.position)
    ELSE IF comparison_token.token = Token_Lt
    THEN Ok(AstNode_Binary("Lt", left_op.node, right_op.node), right_op.position)
    ELSE Err(<<"expected comparison token, but encountered", comparison_token.token>>,
             right_op.position))))

\* parse_comparison taking any other token in the operator slot for `=`
parse_comparison_default(text, pos) ==
  Try(parse_value(text, pos), LAMBDA left_op :
  Bind(next_token(text, left_op.position), LAMBDA comparison_token :
  Try(parse_value(text, comparison_token.position), LAMBDA right_op :
    IF comparison_token.token = Token_Nq
    THEN Ok(AstNode_Binary("Nq", left_op.node, right_op.node), right_op.position)
    ELSE IF comparison_token.token = Token_Ge
    THEN Ok(AstNode_Binary("Ge", left_op.node, right_op.node), right_op.position)
    ELSE IF comparison_token.token = Token_Gt
    THEN Ok(AstNode_Binary("Gt", left_op.node, right_op.node), right_op.position)
    ELSE IF comparison_token.token = Token_Le
    THEN Ok(AstNode_Binary("Le", left_op.node, right_op.node), right_op.position)
    ELSE IF comparison_token.token = Token_Lt
    THEN Ok(AstNode_Binary("Lt", left_op.node, right_op.node), right_op.position)
    ELSE Ok(AstNode_Binary("Eq", left_op.node, right_op.node), right_op.position))))

parse_comparison(text, pos) ==
  Try(parse_value(text, pos), LAMBDA left_op :
  Bind(next_token(text, left_op.position), LAMBDA comparison_token :
  Try(parse_value(text, comparison_token.position), LAMBDA right_op :
    IF comparison_token.token = Token_Eq
    THEN Ok(AstNode_Binary("Eq", left_op.node, right_op.node), right_op.position)
    ELSE IF comparison_token.token = Token_Nq
    THEN Ok(AstNode_Binary("Nq", left_op.node, right_op.node), right_op.position)
    ELSE IF comparison_token.token = Token_Ge
    THEN Ok(AstNode_Binary("Ge", left_op.node, right_op.node), right_op.position)
    ELSE IF comparison_token.token = Token_Gt
    THEN Ok(AstNode_Binary("Gt", left_op.node, right_op.node), right_op.position)
    ELSE IF comparison_token.token = Token_Le
    THEN Ok(AstNode_Binary("Le", left_op.node, right_op.node), right_op.position)
    ELSE IF comparison_token.token = Token_Lt
    THEN Ok(AstNode_Binary("Lt", left_op.node, right_op.node), right_op.position)
    ELSE Err(<<"expected comparison token, but encountered", comparison_token.token>>,
             right_op.position))))

RECURSIVE parse_condition(_, _)
RECURSIVE parse_if_expression(_, _)

\* parse_conjunction trying the parenthesised alternative where the comparison stopped
parse_conjunction_unrestored(text, pos) ==
  Bind(parse_comparison(text, pos), LAMBDA comparison :
    IF comparison.ok THEN comparison
    ELSE
    Try(consume_token(text, comparison.position, Token_LeftParen), LAMBDA left_paren :
    Try(parse_condition(text, left_paren.position), LAMBDA node :
    Try(consume_token(text, node.position, Token_RightParen), LAMBDA right_paren :
      Ok(node.node, right_paren.position)))))

\* parse_conjunction with a single comparison between the parentheses
parse_conjunction_comparison(text, pos) ==
  Bind(parse_comparison(text, pos), LAMBDA comparison :
    IF comparison.ok THEN comparison
    ELSE
    Try(consume_token(text, set_position(text, comparison.position, get_position(pos)),
                      Token_LeftParen), LAMBDA left_paren :
    Try(parse_comparison(text, left_paren.position), LAMBDA node :
    Try(consume_token(text, node.position, Token_RightParen), LAMBDA right_paren :
      Ok(node.node, right_paren.position)))))

parse_conjunction(text, pos) ==
  Bind(parse_comparison(text, pos), LAMBDA comparison :
    IF comparison.ok THEN comparison
    ELSE
    Try(consume_token(text, set_position(text, comparison.position, get_position(pos)),
                      Token_LeftParen), LAMBDA left_paren :
    Try(parse_condition(text, left_paren.position), LAMBDA node :
    Try(consume_token(text, node.position, Token_RightParen), LAMBDA right_paren :
      Ok(node.node, right_paren.position)))))

\* the `and` loop with a whole condition as the right operand
parse_disjunction_while_condition(text, pos, left_node, consumed_and, saved) ==
  Bind(consume_token(text, pos, Token_And), LAMBDA and_token :
    IF and_token.ok
    THEN Try(parse_condition(text, and_token.position), LAMBDA right_node :
           Ok(AstNode_Binary("And", left_node, right_node.node), right_node.position))
    ELSE IF consumed_and
    THEN Ok(left_node, and_token.position)
    ELSE Ok(left_node, set_position(text, and_token.position, saved)))

RECURSIVE parse_disjunction_while(_, _, _, _, _)
\* the `while self.consume_token(Token::And).is_ok()` loop and what follows it
parse_disjunction_while(text, pos, left_node, consumed_and, saved) ==
  Bind(consume_token(text, pos, Token_And), LAMBDA and_token :
    IF and_token.ok
    THEN Try(parse_conjunction(text, and_token.position), LAMBDA right_node :
           parse_disjunction_while(text, right_node.position,
                                   AstNode_Binary("And", left_node, right_node.node),
                                   TRUE, saved))
    ELSE IF consumed_and
    THEN Ok(left_node, and_token.position)
    ELSE Ok(left_node, set_position(text, and_token.position, saved)))

parse_disjunction(text, pos) ==
  Try(parse_conjunction(text, pos), LAMBDA left_node :
    parse_disjunction_while(text, left_node.position, left_node.node, FALSE,
                            get_position(left_node.position)))

\* the `or` loop with the rest of the condition as the right operand
parse_condition_while_right(text, pos, left_node, consumed_or, saved) ==
  Bind(consume_token(text, pos, Token_Or), LAMBDA or_token :
    IF or_token.ok
    THEN Try(parse_condition(text, or_token.position), LAMBDA right_node :
           Ok(AstNode_Binary("Or", left_node, right_node.node), right_node.position))
    ELSE IF consumed_or
    THEN Ok(left_node, or_token.position)
    ELSE Ok(left_node, set_position(text, or_token.position, saved)))

RECURSIVE parse_condition_while_dangling(_, _, _, _, _)
\* the `or` loop ending after an `or` that no disjunction follows
parse_condition_while_dangling(text, pos, left_node, consumed_or, saved) ==
  Bind(consume_token(text, pos, Token_Or), LAMBDA or_token :
    IF or_token.ok
    THEN Bind(parse_disjunction(text, or_token.position), LAMBDA right_node :
           IF ~right_node.ok THEN Ok(left_node, or_token.position)
           ELSE parse_condition_while_dangling(text, right_node.position,
                                               AstNode_Binary("Or", left_node, right_node.node),
                                               TRUE, saved))
    ELSE IF consumed_or
    THEN Ok(left_node, or_token.position)
    ELSE Ok(left_node, set_position(text, or_token.position, saved)))

RECURSIVE parse_condition_while(_, _, _, _, _)
\* the `while self.consume_token(Token::Or).is_ok()` loop and what follows it
parse_condition_while(text, pos, left_node, consumed_or, saved) ==
  Bind(consume_token(text, pos, Token_Or), LAMBDA or_token :
    IF or_token.ok
    THEN Try(parse_disjunction(text, or_token.position), LAMBDA right_node :
           parse_condition_while(text, right_node.position,
                                 AstNode_Binary("Or", left_node, right_node.node),
                                 TRUE, saved))
    ELSE IF consumed_or
    THEN Ok(left_node, or_token.position)
    ELSE Ok(left_node, set_position(text, or_token.position, saved)))

parse_condition(text, pos) ==
  Try(parse_disjunction(text, pos), LAMBDA left_node :
    parse_condition_while(text, left_node.position, left_node.node, FALSE,
                          get_position(left_node.position)))

\* parse_expression handing on the error of the if expression it tried last
parse_expression_propagating(text, pos) ==
  Bind(parse_value(text, pos), LAMBDA as_value :
    IF as_value.ok THEN as_value
    ELSE
    Bind(parse_if_expression(text, set_position(text, as_value.position, get_position(pos))),
         LAMBDA as_if :
      IF as_if.ok THEN as_if
      ELSE Err(as_if.err, set_position(text, as_if.position, get_position(pos)))))

parse_expression(text, pos) ==
  Bind(parse_value(text, pos), LAMBDA as_value :
    IF as_value.ok THEN as_value
    ELSE
    Bind(parse_if_expression(text, set_position(text, as_value.position, get_position(pos))),
         LAMBDA as_if :
      IF as_if.ok THEN as_if
      ELSE Err(<<"expected value or if expression">>,
               set_position(text, as_if.position, get_position(pos)))))

\* parse_if_expression building the node with the condition as its second child
parse_if_expression_misordered(text, pos) ==
  Try(consume_token(text, pos, Token_If), LAMBDA if_token :
  Try(consume_token(text, if_token.position, Token_LeftParen), LAMBDA left_paren :
  Try(parse_condition(text, left_paren.position), LAMBDA comparison :
  Try(consume_token(text, comparison.position, Token_Semicolon), LAMBDA semicolon1 :
  Try(parse_expression(text, semicolon1.position), LAMBDA left_op :
  Try(consume_token(text, left_op.position, Token_Semicolon), LAMBDA semicolon2 :
  Try(parse_expression(text, semicolon2.position), LAMBDA right_op :
  Try(consume_token(text, right_op.position, Token_RightParen), LAMBDA right_paren :
    Ok(AstNode_If(left_op.node, comparison.node, right_op.node),
       right_paren.position)))))))))

parse_if_expression(text, pos) ==
  Try(consume_token(text, pos, Token_If), LAMBDA if_token :
  Try(consume_token(text, if_token.position, Token_LeftParen), LAMBDA left_paren :
  Try(parse_condition(text, left_paren.position), LAMBDA comparison :
  Try(consume_token(text, comparison.position, Token_Semicolon), LAMBDA semicolon1 :
  Try(parse_expression(text, semicolon1.position), LAMBDA left_op :
  Try(consume_token(text, left_op.position, Token_Semicolon), LAMBDA semicolon2 :
  Try(parse_expression(text, semicolon2.position), LAMBDA right_op :
  Try(consume_token(text, right_op.position, Token_RightParen), LAMBDA right_paren :
    Ok(AstNode_If(comparison.node, left_op.node, right_op.node),
       right_paren.position)))))))))

\* parse_statement requiring the end of the input after the if expression
parse_statement_eof(text, pos) ==
  Try(parse_if_expression(text, pos), LAMBDA node :
  Try(consume_token(text, node.position, Token_Eof), LAMBDA eof :
    Ok(node.node, eof.position)))

parse_statement(text, pos) == parse_if_expression(text, pos)

parse(text, pos) == parse_statement(text, pos)

(***************************************************************************)
(* parser.rs with its trace: every rule prints its name and the lexer's    *)
(* cursor on entry (Parser::trace). The traced rules return whether the    *)
(* rule returned Ok, the cursor it left, the lines of the trace, the tests *)
(* of the `or` and `and` loops that consumed their keyword, and the number *)
(* of Lexer::next_token calls made.                                        *)
(***************************************************************************)
Untraced(ok, pos, lexed) ==
  [ok |-> ok, position |-> pos, trace |-> <<>>, loops |-> <<>>, lexed |-> lexed]

\* self.trace(name) at the entry of the rule that returned r
trace(name, pos, r) == [r EXCEPT !.trace = <<<<name, pos>>>> \o @]

\* s ran after r
After(r, s) ==
  [ok |-> s.ok, position |-> s.position, trace |-> r.trace \o s.trace,
   loops |-> r.loops \o s.loops, lexed |-> r.lexed + s.lexed]

\* `r?;` and the statements after it, which start from the cursor r left
AndThen(r, F(_)) == IF r.ok THEN After(r, F(r.position)) ELSE r

\* a loop test at the cursor pos consumed its keyword
Iterated(name, pos, r) == [r EXCEPT !.loops = <<<<name, pos, r.position>>>> \o @]

traced_consume_token(text, pos, expected) ==
  Untraced(consume_token(text, pos, expected).ok,
           consume_token(text, pos, expected).position, 1)

traced_parse_value(text, pos) ==
  trace("value", pos,
        Untraced(parse_value(text, pos).ok, parse_value(text, pos).position, 1))

traced_parse_comparison(text, pos) ==
  trace("comparison", pos,
    AndThen(traced_parse_value(text, pos), LAMBDA p1 :
    AndThen(Untraced(TRUE, next_token(text, p1).position, 1), LAMBDA p2 :
    AndThen(traced_parse_value(text, p2), LAMBDA p3 :
      Untraced(next_token(text, p1).token \in
                 {Token_Eq, Token_Nq, Token_Ge, Token_Gt, Token_Le, Token_Lt}, p3, 0)))))

RECURSIVE traced_parse_condition(_, _)
RECURSIVE traced_parse_if_expression(_, _)

\* parse_conjunction trying the comparison a second time before the parentheses
traced_parse_conjunction_retrying(text, pos) ==
  trace("conjunction", pos,
    Bind(traced_parse_comparison(text, pos), LAMBDA comparison :
      IF comparison.ok THEN comparison
      ELSE
      After(comparison,
        Bind(traced_parse_comparison(text, set_position(text, comparison.position, pos)),
             LAMBDA again :
          IF again.ok THEN again
          ELSE
          After(again,
            AndThen(traced_consume_token(text, set_position(text, again.position, pos),
                                         Token_LeftParen), LAMBDA p1 :
            AndThen(traced_parse_condition(text, p1), LAMBDA p2 :
              traced_consume_token(text, p2, Token_RightParen))))))))

traced_parse_conjunction(text, pos) ==
  trace("conjunction", pos,
    Bind(traced_parse_comparison(text, pos), LAMBDA comparison :
      IF comparison.ok THEN comparison
      ELSE
      After(comparison,
        AndThen(traced_consume_token(text, set_position(text, comparison.position, pos),
                                     Token_LeftParen), LAMBDA p1 :
        AndThen(traced_parse_condition(text, p1), LAMBDA p2 :
          traced_consume_token(text, p2, Token_RightParen))))))

RECURSIVE traced_parse_disjunction_while(_, _, _, _)
traced_parse_disjunction_while(text, pos, consumed_and, saved) ==
  Bind(traced_consume_token(text, pos, Token_And), LAMBDA and_token :
    IF and_token.ok
    THEN AndThen(Iterated("and", pos, and_token), LAMBDA p1 :
         AndThen(traced_parse_conjunction(text, p1), LAMBDA p2 :
           traced_parse_disjunction_while(text, p2, TRUE, saved)))
    ELSE After(and_token,
               Untraced(TRUE,
                        IF consumed_and THEN and_token.position
                        ELSE set_position(text, and_token.position, saved), 0)))

traced_parse_disjunction(text, pos) ==
  trace("disjunction", pos,
    AndThen(traced_parse_conjunction(text, pos), LAMBDA p1 :
      traced_parse_disjunction_while(text, p1, FALSE, get_position(p1))))

RECURSIVE traced_parse_condition_while(_, _, _, _)
traced_parse_condition_while(text, pos, consumed_or, saved) ==
  Bind(traced_consume_token(text, pos, Token_Or), LAMBDA or_token :
    IF or_token.ok
    THEN AndThen(Iterated("or", pos, or_token), LAMBDA p1 :
         AndThen(traced_parse_disjunction(text, p1), LAMBDA p2 :
           traced_parse_condition_while(text, p2, TRUE, saved)))
    ELSE After(or_token,
               Untraced(TRUE,
                        IF consumed_or THEN or_token.position
                        ELSE set_position(text, or_token.position, saved), 0)))

traced_parse_condition(text, pos) ==
  trace("condition", pos,
    AndThen(traced_parse_disjunction(text, pos), LAMBDA p1 :
      traced_parse_condition_while(text, p1, FALSE, get_position(p1))))

traced_parse_expression(text, pos) ==
  trace("expression", pos,
    Bind(traced_parse_value(text, pos), LAMBDA as_value :
      IF as_value.ok THEN as_value
      ELSE
      After(as_value,
        Bind(traced_parse_if_expression(text, set_position(text, as_value.position, pos)),
             LAMBDA as_if :
          IF as_if.ok THEN as_if
          ELSE After(as_if,
                     Untraced(FALSE, set_position(text, as_if.position, pos), 0))))))

traced_parse_if_expression(text, pos) ==
  trace("if-expression", pos,
    AndThen(traced_consume_token(text, pos, Token_If), LAMBDA p1 :
    AndThen(traced_consume_token(text, p1, Token_LeftParen), LAMBDA p2 :
    AndThen(traced_parse_condition(text, p2), LAMBDA p3 :
    AndThen(traced_consume_token(text, p3, Token_Semicolon), LAMBDA p4 :
    AndThen(traced_parse_expression(text, p4), LAMBDA p5 :
    AndThen(traced_consume_token(text, p5, Token_Semicolon), LAMBDA p6 :
    AndThen(traced_parse_expression(text, p6), LAMBDA p7 :
      traced_consume_token(text, p7, Token_RightParen)))))))))

traced_parse_statement(text, pos) ==
  trace("statement", pos, traced_parse_if_expression(text, pos))

traced_parse(text, pos) == traced_parse_statement(text, pos)

(***************************************************************************)
(* Source texts. A text is written as a sequence of tokens; Render spells  *)
(* each token as the lexer reads it and separates tokens by one space.     *)
(***************************************************************************)
RECURSIVE Digits(_)
\* the decimal numeral of n
Digits(n) ==
  IF n < 10 THEN <<DigitChars[n + 1]>> ELSE Append(Digits(n \div 10), DigitChars[(n % 10) + 1])

Lexeme(token) ==
  CASE token = Token_And -> <<"a", "n", "d">>
    [] token = Token_Eq -> <<"=">>
    [] token = Token_Ge -> <<">", "=">>
    [] token = Token_Gt -> <<">">>
    [] token = Token_If -> <<"i", "f">>
    [] token = Token_Le -> <<"<", "=">>
    [] token = Token_LeftParen -> <<"(">>
    [] token = Token_Lt -> <<"<">>
    [] token = Token_Null -> <<"n", "u", "l", "l">>
    [] token = Token_Nq -> <<"<", ">">>
    [] token = Token_Or -> <<"o", "r">>
    [] token = Token_RightParen -> <<")">>
    [] token = Token_Semicolon -> <<";">>
    [] token = Token_Undef -> <<":">>
    [] token = Token_Eof -> <<>>
    [] token[1] = "Number" -> Digits(token[2])

RECURSIVE Render(_)
Render(tokens) ==
  IF tokens = <<>> THEN <<>>
  ELSE IF Len(tokens) = 1 THEN Lexeme(tokens[1])
  ELSE Lexeme(tokens[1]) \o <<WS>> \o Render(Tail(tokens))

RECURSIVE Compact(_)
\* the tokens spelled with nothing between them
Compact(tokens) ==
  IF tokens = <<>> THEN <<>> ELSE Lexeme(tokens[1]) \o Compact(Tail(tokens))

RECURSIVE tokenize_loop(_, _, _)
tokenize_loop(text, pos, tokens) ==
  LET t == next_token(text, pos) IN
  IF t.token \in {Token_Eof, Token_Undef}
  THEN Append(tokens, t.token)
  ELSE tokenize_loop(text, t.position, Append(tokens, t.token))

\* the tokens of a text up to and including the first Eof or Undef
tokenize(text) == tokenize_loop(text, 0, <<>>)

ComparisonTokens == {Token_Eq, Token_Nq, Token_Ge, Token_Gt, Token_Le, Token_Lt}

\* the tokens a text is written with
TokenAlphabet ==
  ComparisonTokens
  \cup {Token_If, Token_LeftParen, Token_RightParen, Token_Semicolon, Token_Or, Token_And}
  \cup {Token_Null, Token_Number(1), Token_Number(U8Max), Token_Undef}

\* the numeral 256, written as the text of a Number token is
Numeral_Overflow == <<"Number", U8Max + 1>>

\* what a text is written with: the tokens and the numeral that is no token
TextAlphabet == TokenAlphabet \cup {Numeral_Overflow}

(***************************************************************************)
(* The grammar of the module documentation of parser.rs, as the set of     *)
(* ASTs each rule derives from a token sequence (empty when the sequence   *)
(* is not derivable from the rule). Repetitions fold to the left.          *)
(***************************************************************************)
IsValueToken(t) == t = Token_Null \/ t[1] = "Number"

ValueNode(t) == IF t = Token_Null THEN AstNode_Null ELSE AstNode_Number(t[2])

Positions(s, token) == {i \in 1..Len(s) : s[i] = token}

DerivedValue(s) ==
  IF Len(s) = 1 /\ IsValueToken(s[1]) THEN {ValueNode(s[1])} ELSE {}

DerivedComparison(s) ==
  IF Len(s) = 3 /\ IsValueToken(s[1]) /\ s[2] \in ComparisonTokens /\ IsValueToken(s[3])
  THEN {AstNode_Binary(s[2][1], ValueNode(s[1]), ValueNode(s[3]))}
  ELSE {}

RECURSIVE DerivedCondition(_)
RECURSIVE DerivedDisjunction(_)
RECURSIVE DerivedIfExpression(_)

DerivedConjunction(s) ==
  DerivedComparison(s)
  \cup (IF Len(s) >= 2 /\ s[1] = Token_LeftParen /\ s[Len(s)] = Token_RightParen
        THEN DerivedCondition(SubSeq(s, 2, Len(s) - 1))
        ELSE {})

DerivedDisjunction(s) ==
  DerivedConjunction(s)
  \cup UNION {{AstNode_Binary("And", a, b) :
                 a \in DerivedDisjunction(SubSeq(s, 1, i - 1)),
                 b \in DerivedConjunction(SubSeq(s, i + 1, Len(s)))} :
              i \in Positions(s, Token_And)}

DerivedCondition(s) ==
  DerivedDisjunction(s)
  \cup UNION {{AstNode_Binary("Or", a, b) :
                 a \in DerivedCondition(SubSeq(s, 1, i - 1)),
                 b \in DerivedDisjunction(SubSeq(s, i + 1, Len(s)))} :
              i \in Positions(s, Token_Or)}

DerivedExpression(s) == DerivedValue(s) \cup DerivedIfExpression(s)

DerivedIfExpression(s) ==
  IF Len(s) >= 3 /\ s[1] = Token_If /\ s[2] = Token_LeftParen /\ s[Len(s)] = Token_RightParen
  THEN UNION {{AstNode_If(c, t, e) :
                 c \in DerivedCondition(SubSeq(s, 3, ij[1] - 1)),
                 t \in DerivedExpression(SubSeq(s, ij[1] + 1, ij[2] - 1)),
                 e \in DerivedExpression(SubSeq(s, ij[2] + 1, Len(s) - 1))} :
              ij \in {ij \in Positions(s, Token_Semicolon) \X Positions(s, Token_Semicolon) :
                        ij[1] < ij[2]}}
  ELSE {}

DerivedStatement(s) == DerivedIfExpression(s)

(***************************************************************************)
(* The statements of the grammar by size (comparisons + parenthesized      *)
(* conditions + nested if-expressions), and the texts one token away.      *)
(***************************************************************************)
\* the largest size of a generated statement
MaxSize == 3

GenComparison == {<<Token_Number(1), Token_Eq, Token_Null>>}

RECURSIVE GenCondition(_)
RECURSIVE GenDisjunction(_)
RECURSIVE GenIfExpression(_)

GenConjunction(n) ==
  IF n = 1
  THEN GenComparison
  ELSE {<<Token_LeftParen>> \o c \o <<Token_RightParen>> : c \in GenCondition(n - 1)}

GenDisjunction(n) ==
  GenConjunction(n)
  \cup UNION {{a \o <<Token_And>> \o b : a \in GenDisjunction(i), b \in GenConjunction(n - i)} :
              i \in 1..(n - 1)}

GenCondition(n) ==
  GenDisjunction(n)
  \cup UNION {{a \o <<Token_Or>> \o b : a \in GenCondition(i), b \in GenDisjunction(n - i)} :
              i \in 1..(n - 1)}

GenExpression(n) ==
  IF n = 0 THEN {<<Token_Number(1)>>} ELSE GenIfExpression(n - 1)

GenIfExpression(n) ==
  UNION {{<<Token_If, Token_LeftParen>> \o c \o <<Token_Semicolon>> \o t
            \o <<Token_Semicolon>> \o e \o <<Token_RightParen>> :
            c \in GenCondition(ij[1]),
            t \in GenExpression(ij[2]),
            e \in GenExpression(n - ij[1] - ij[2])} :
         ij \in {ij \in (1..n) \X (0..n) : ij[1] + ij[2] <= n}}

\* "if(1<>null;1;if(3>4;3;4))"
test_0008 ==
  <<Token_If, Token_LeftParen, Token_Number(1), Token_Nq, Token_Null, Token_Semicolon,
    Token_Number(1), Token_Semicolon, Token_If, Token_LeftParen, Token_Number(3),
    Token_Gt, Token_Number(4), Token_Semicolon, Token_Number(3), Token_Semicolon,
    Token_Number(4), Token_RightParen, Token_RightParen>>

\* "if ( 3 <> null and (4 <> null or 1 = 2); 1; 2 )"
test_0013 ==
  <<Token_If, Token_LeftParen, Token_Number(3), Token_Nq, Token_Null, Token_And,
    Token_LeftParen, Token_Number(4), Token_Nq, Token_Null, Token_Or, Token_Number(1),
    Token_Eq, Token_Number(2), Token_RightParen, Token_Semicolon, Token_Number(1),
    Token_Semicolon, Token_Number(2), Token_RightParen>>

\* "if(1<2 or 3>4 or 5>=6 or 7<=8 and 9=null;10;null)"
test_0017 ==
  <<Token_If, Token_LeftParen, Token_Number(1), Token_Lt, Token_Number(2), Token_Or,
    Token_Number(3), Token_Gt, Token_Number(4), Token_Or, Token_Number(5), Token_Ge,
    Token_Number(6), Token_Or, Token_Number(7), Token_Le, Token_Number(8), Token_And,
    Token_Number(9), Token_Eq, Token_Null, Token_Semicolon, Token_Number(10),
    Token_Semicolon, Token_Null, Token_RightParen>>

\* "if(1<2 and 3>4 and 5>=6 and 7<=8;9;null)"
test_0019 ==
  <<Token_If, Token_LeftParen, Token_Number(1), Token_Lt, Token_Number(2), Token_And,
    Token_Number(3), Token_Gt, Token_Number(4), Token_And, Token_Number(5), Token_Ge,
    Token_Number(6), Token_And, Token_Number(7), Token_Le, Token_Number(8),
    Token_Semicolon, Token_Number(9), Token_Semicolon, Token_Null, Token_RightParen>>

\* statements of the parser's tests
TestStatements == {test_0008, test_0013, test_0017, test_0019}

GenStatements == TestStatements \cup UNION {GenIfExpression(n) : n \in 1..MaxSize}

\* s, its prefixes, and s with one token replaced, removed or inserted
OneTokenAway(s) ==
  {s}
  \cup {SubSeq(s, 1, n) : n \in 0..Len(s)}
  \cup {[s EXCEPT ![i] = t] : i \in 1..Len(s), t \in TextAlphabet}
  \cup {SubSeq(s, 1, i - 1) \o SubSeq(s, i + 1, Len(s)) : i \in 1..Len(s)}
  \cup {SubSeq(s, 1, i) \o <<t>> \o SubSeq(s, i + 1, Len(s)) : i \in 0..Len(s), t \in TextAlphabet}

\* "if(1 OP 2;1;2)" (tests/evaluator.rs test_0001..test_0006)
OperatorText(op) ==
  Compact(<<Token_If, Token_LeftParen, Token_Number(1), op, Token_Number(2), Token_Semicolon,
            Token_Number(1), Token_Semicolon, Token_Number(2), Token_RightParen>>)

\* the environments the tests build: values[i] stored under key i + 1
TestValues == UNION {[1..n -> Value] : n \in 0..2}

(***************************************************************************)
(* SpecEval: an evaluator is built from an AST node and then called with   *)
(* environments.                                                           *)
(***************************************************************************)
InitEval ==
  /\ input = <<>>
  /\ position = 0
  /\ result = NoResult
  /\ ast \in AstNodes
  /\ iv \in IndexedValues
  /\ value = NoValue
  /\ calls = <<>>
  /\ pc = "built"

\* evaluator(&environment)
Call ==
  /\ pc = "built"
  /\ LET r == build_evaluator(ast, iv, <<>>) IN
       /\ value' = r.v
       /\ calls' = r.calls
  /\ pc' = "called"
  /\ UNCHANGED <<input, position, result, ast, iv>>

NextEval == Call

SpecEval == InitEval /\ [][NextEval]_vars

(***************************************************************************)
(* The pipeline of lib.rs and the tests: Parser::new(input).parse(),       *)
(* build_evaluator(&node), evaluator(&values).                             *)
(***************************************************************************)
\* Parser::new(input)
Parser_new(text) ==
  /\ pc = "start"
  /\ input' = text
  /\ position' = 0
  /\ pc' = "new"
  /\ UNCHANGED <<result, ast, iv, value, calls>>

\* Parser::parse
Parse ==
  /\ pc = "new"
  /\ result' = parse(input, position)
  /\ position' = result'.position
  /\ pc' = "parsed"
  /\ UNCHANGED <<input, ast, iv, value, calls>>

\* evaluator::build_evaluator(&node) on the unwrapped parse result
Build ==
  /\ pc = "parsed"
  /\ result.ok
  /\ ast' = result.node
  /\ pc' = "built"
  /\ UNCHANGED <<input, position, result, iv, value, calls>>

(***************************************************************************)
(* SpecParse: a parser is created over a text and parses it. The texts are *)
(* the generated statements, the statements of the parser's tests, and     *)
(* every text one token away from one of them.                             *)
(***************************************************************************)
InitParse ==
  /\ input = <<>>
  /\ position = 0
  /\ result = NoResult
  /\ ast = NoAst
  /\ iv = <<>>
  /\ value = NoValue
  /\ calls = <<>>
  /\ pc = "start"

NewTokenText ==
  /\ pc = "start"
  /\ \E s \in GenStatements : \E t \in OneTokenAway(s) : Parser_new(Render(t))

NextParse == NewTokenText \/ Parse

SpecParse == InitParse /\ [][NextParse]_vars

(***************************************************************************)
(* SpecPipeline: the operator texts are parsed, built and evaluated.       *)
(***************************************************************************)
InitPipeline ==
  /\ input = <<>>
  /\ position = 0
  /\ result = NoResult
  /\ ast = NoAst
  /\ iv \in TestValues
  /\ value = NoValue
  /\ calls = <<>>
  /\ pc = "start"

NewOperatorText ==
  /\ pc = "start"
  /\ \E op \in ComparisonTokens : Parser_new(OperatorText(op))

NextPipeline == NewOperatorText \/ Parse \/ Build \/ Call

SpecPipeline == InitPipeline /\ [][NextPipeline]_vars

(***************************************************************************)
(* SpecRules: a parser is created over a text and its rules are called one *)
(* after the other, each from the cursor the one before left behind.       *)
(***************************************************************************)
\* the texts one token away from "if ( 1 = null ; 1 ; 1 )", "if(3 1 null;3;2)"
\* of test_e_0001 among them up to the numbers, and two statements of the tests
RuleTexts ==
  UNION {OneTokenAway(s) : s \in GenIfExpression(1)} \cup {test_0008, test_0013}

InitRules ==
  /\ input = <<>>
  /\ position = 0
  /\ result = NoResult
  /\ ast = NoAst
  /\ iv = <<>>
  /\ value = NoValue
  /\ calls = <<>>
  /\ pc = "start"

NewRuleText ==
  /\ pc = "start"
  /\ \E t \in RuleTexts : Parser_new(Render(t))

\* a rule is entered at the cursor and returns r
RuleReturns(r) ==
  /\ result' = r
  /\ position' = r.position
  /\ UNCHANGED <<input, ast, iv, value, calls>>

Call_consume_token ==
  /\ pc # "start"
  /\ pc' = "consume_token"
  /\ \E expected \in {Token_If, Token_LeftParen, Token_RightParen, Token_Semicolon,
                      Token_Or, Token_And} :
       RuleReturns(consume_token(input, position, expected))

Call_parse_value ==
  /\ pc # "start"
  /\ pc' = "parse_value"
  /\ RuleReturns(parse_value(input, position))

Call_parse_comparison ==
  /\ pc # "start"
  /\ pc' = "parse_comparison"
  /\ RuleReturns(parse_comparison(input, position))

Call_parse_conjunction ==
  /\ pc # "start"
  /\ pc' = "parse_conjunction"
  /\ RuleReturns(parse_conjunction(input, position))

Call_parse_disjunction ==
  /\ pc # "start"
  /\ pc' = "parse_disjunction"
  /\ RuleReturns(parse_disjunction(input, position))

Call_parse_condition ==
  /\ pc # "start"
  /\ pc' = "parse_condition"
  /\ RuleReturns(parse_condition(input, position))

Call_parse_expression ==
  /\ pc # "start"
  /\ pc' = "parse_expression"
  /\ RuleReturns(parse_expression(input, position))

Call_parse_if_expression ==
  /\ pc # "start"
  /\ pc' = "parse_if_expression"
  /\ RuleReturns(parse_if_expression(input, position))

NextRules ==
  \/ NewRuleText
  \/ Call_consume_token
  \/ Call_parse_value
  \/ Call_parse_comparison
  \/ Call_parse_conjunction
  \/ Call_parse_disjunction
  \/ Call_parse_condition
  \/ Call_parse_expression
  \/ Call_parse_if_expression

SpecRules == InitRules /\ [][NextRules]_vars

(***************************************************************************)
(* SpecLexer: a client of the lexer calls next_token, get_position and     *)
(* set_position in any order on a short text.                              *)
(***************************************************************************)
LexerTexts ==
  { <<>>,
    <<" ">>,
    <<"\t", "\n", " ", "\r">>,
    <<" ", "\f", "(">>,
    <<"i", "f", "(", "1">>,
    <<"n", "u", "l", "l">>,
    <<"n", "u", "l">>,
    <<"n", "u", "l", "l", "a">>,
    <<"a", "n", "d", ")">>,
    <<"a", "n">>,
    <<"o", "r", "<", " ">>,
    <<" ", "o", "r">>,
    <<"1", "<">>,
    <<"<", "=", ">">>,
    <<"<", ">", "=">>,
    <<">", "=", ";">>,
    <<"=", " ", "<", "\t">>,
    <<"0">>,
    <<"0", "1">>,
    <<"7", " ">>,
    <<"1", "0", ")">>,
    <<"2", "5", "5">>,
    <<"2", "5", "6">>,
    <<"2", "5", "6", "=">>,
    <<" ", "2", "5", "6", "0">>,
    <<"3", "0", "0", " ", "1">>,
    <<"2", "5", "a">>,
    <<":">>,
    <<" ", ":", " ">>,
    <<"(", "2", "5", "6", "=">> }

InitLexer ==
  /\ input = <<>>
  /\ position = 0
  /\ result = NoResult
  /\ ast = NoAst
  /\ iv = <<>>
  /\ value = NoValue
  /\ calls = {}
  /\ pc = "start"

\* Lexer::new(text)
Lexer_new ==
  /\ pc = "start"
  /\ \E text \in LexerTexts : input' = text
  /\ position' = 0
  /\ pc' = "new"
  /\ UNCHANGED <<result, ast, iv, value, calls>>

\* calls keeps, for every cursor next_token was called at, what the first
\* call at that cursor returned and where it left the cursor
Call_next_token ==
  /\ pc # "start"
  /\ pc' = "next_token"
  /\ position' = next_token(input, position).position
  /\ value' = [at |-> position, token |-> next_token(input, position).token]
  /\ calls' = IF \E c \in calls : c.at = position
              THEN calls
              ELSE calls \cup {[at |-> position,
                                token |-> next_token(input, position).token,
                                position |-> next_token(input, position).position]}
  /\ UNCHANGED <<input, result, ast, iv>>

Call_get_position ==
  /\ pc # "start"
  /\ pc' = "get_position"
  /\ value' = [at |-> position, returned |-> get_position(position)]
  /\ UNCHANGED <<input, position, result, ast, iv, calls>>

Call_set_position ==
  /\ pc # "start"
  /\ pc' = "set_position"
  /\ \E wanted \in 0..(Len(input) + 1) :
       /\ position' = set_position(input, position, wanted)
       /\ value' = [at |-> position, wanted |-> wanted]
  /\ UNCHANGED <<input, result, ast, iv, calls>>

NextLexer == Lexer_new \/ Call_next_token \/ Call_get_position \/ Call_set_position

SpecLexer == InitLexer /\ [][NextLexer]_vars

(***************************************************************************)
(* SpecStatements: statements are parsed, built and called with an         *)
(* environment (lib.rs, tests/evaluator.rs eq).                            *)
(***************************************************************************)
\* statements of tests/evaluator.rs and statements of their shapes with a
\* nested if expression, written with the indices the environments hold
StatementTokens ==
  { \* "if(1=null;2;1)" (test_0007)
    <<Token_If, Token_LeftParen, Token_Number(1), Token_Eq, Token_Null, Token_Semicolon,
      Token_Number(2), Token_Semicolon, Token_Number(1), Token_RightParen>>,
    \* "if(null<>null;1;2)" (test_0008)
    <<Token_If, Token_LeftParen, Token_Null, Token_Nq, Token_Null, Token_Semicolon,
      Token_Number(1), Token_Semicolon, Token_Number(2), Token_RightParen>>,
    \* "if(1>2 and 2>1;255;1)" (test_0009)
    <<Token_If, Token_LeftParen, Token_Number(1), Token_Gt, Token_Number(2), Token_And,
      Token_Number(2), Token_Gt, Token_Number(1), Token_Semicolon,
      Token_Number(U8Max), Token_Semicolon, Token_Number(1), Token_RightParen>>,
    \* "if(1>2 or 2>=1;255;null)" (test_0010)
    <<Token_If, Token_LeftParen, Token_Number(1), Token_Gt, Token_Number(2), Token_Or,
      Token_Number(2), Token_Ge, Token_Number(1), Token_Semicolon,
      Token_Number(U8Max), Token_Semicolon, Token_Null, Token_RightParen>>,
    \* "if(1<>null;1;if(255>1;255;1))" (tests/parser.rs test_0008)
    <<Token_If, Token_LeftParen, Token_Number(1), Token_Nq, Token_Null, Token_Semicolon,
      Token_Number(1), Token_Semicolon, Token_If, Token_LeftParen, Token_Number(U8Max),
      Token_Gt, Token_Number(1), Token_Semicolon, Token_Number(U8Max), Token_Semicolon,
      Token_Number(1), Token_RightParen, Token_RightParen>>,
    \* "if(255<=1;if(1<255;null;255);1)"
    <<Token_If, Token_LeftParen, Token_Number(U8Max), Token_Le, Token_Number(1), Token_Semicolon,
      Token_If, Token_LeftParen, Token_Number(1), Token_Lt, Token_Number(U8Max),
      Token_Semicolon, Token_Null, Token_Semicolon, Token_Number(U8Max), Token_RightParen,
      Token_Semicolon, Token_Number(1), Token_RightParen>> }

StatementTexts ==
  {OperatorText(op) : op \in ComparisonTokens} \cup {Compact(s) : s \in StatementTokens}

InitStatements ==
  /\ input = <<>>
  /\ position = 0
  /\ result = NoResult
  /\ ast = NoAst
  /\ iv \in IndexedValues \cup TestValues
  /\ value = NoValue
  /\ calls = <<>>
  /\ pc = "start"

NewStatementText ==
  /\ pc = "start"
  /\ \E text \in StatementTexts : Parser_new(text)

NextStatements == NewStatementText \/ Parse \/ Build \/ Call

SpecStatements == InitStatements /\ [][NextStatements]_vars

(***************************************************************************)
(* Claims about the evaluators (SpecEval).                                 *)
(***************************************************************************)
\* the value the i-th operand's evaluator returns for the environment of the call
Operand(i) == build_evaluator(ast[i + 1], iv, <<i>>).v

Negated(v) == IF IsBool(v) THEN Value_Bool(~v[2]) ELSE v

EqExpected(x, y) ==
  CASE IsNumber(x) /\ IsNumber(y) -> Value_Bool(x[2] = y[2])
    [] IsNull(x) /\ IsNull(y) -> Value_Bool(TRUE)
    [] IsNull(x) /\ IsNumber(y) -> Value_Bool(FALSE)
    [] IsNumber(x) /\ IsNull(y) -> Value_Bool(FALSE)
    [] OTHER -> Value_Null

\* C1: the evaluator of Eq returns Bool(x = y) for two Numbers, Bool(true) for
\* two Nulls, Bool(false) for a Null and a Number, and Null when an operand is a
\* Bool; the evaluator of Nq returns the negated Bool, and Null in the last case.
C1_EqNqThreeValued ==
  (pc = "called" /\ ast[1] \in {"Eq", "Nq"}) =>
    /\ (IsBool(Operand(1)) \/ IsBool(Operand(2))) => value = Value_Null
    /\ ast[1] = "Eq" => value = EqExpected(Operand(1), Operand(2))
    /\ ast[1] = "Nq" => value = Negated(EqExpected(Operand(1), Operand(2)))

C1_Witness ==
  /\ pc = "called"
  /\ ast[1] = "Nq"
  /\ IsNull(Operand(1))
  /\ IsNumber(Operand(2))
  /\ value = Value_Bool(TRUE)

OrderExpected(tag, x, y) ==
  CASE tag = "Ge" -> x >= y
    [] tag = "Gt" -> x > y
    [] tag = "Le" -> x <= y
    [] tag = "Lt" -> x < y

C3_AndOrNeedBools ==
  (pc = "called" /\ ast[1] \in {"And", "Or"}) =>
    IF IsBool(Operand(1)) /\ IsBool(Operand(2))
    THEN value = Value_Bool(IF ast[1] = "And"
                            THEN Operand(1)[2] /\ Operand(2)[2]
                            ELSE Operand(1)[2] \/ Operand(2)[2])
    ELSE value = Value_Null

C3_Witness ==
  /\ pc = "called"
  /\ ast[1] = "Or"
  /\ Operand(1) = Value_Bool(TRUE)
  /\ IsNull(Operand(2))
  /\ value = Value_Null

\* the closure at path p or below it was invoked during the call
Invoked(p) ==
  \E i \in 1..Len(calls) : Len(calls[i]) >= Len(p) /\ SubSeq(calls[i], 1, Len(p)) = p

\* C4: the evaluator of If returns the value of the then-branch when the
\* condition is Bool(true), of the else-branch when it is Bool(false), and Null
\* when the condition is not a Bool, in which case no branch is evaluated.
C4_IfSelectsBranch ==
  (pc = "called" /\ ast[1] = "If") =>
    CASE Operand(1) = Value_Bool(TRUE) -> value = Operand(2)
      [] Operand(1) = Value_Bool(FALSE) -> value = Operand(3)
      [] OTHER -> value = Value_Null /\ ~Invoked(<<2>>) /\ ~Invoked(<<3>>)

C4_Witness ==
  /\ pc = "called"
  /\ ast[1] = "If"
  /\ IsNumber(Operand(1))
  /\ IsNumber(Operand(2))
  /\ IsBool(Operand(3))
  /\ value = Value_Null
  /\ calls = << <<>>, <<1>> >>

\* C5: the evaluator of Number(k) returns the value stored under k when k is a
\* key of the environment, whatever its variant, and Null when k is absent; the
\* evaluator of the Null node returns Null.
C5_NumberLooksUpSlot ==
  /\ (pc = "called" /\ ast[1] = "Number") =>
       /\ ast[2] \in IndexKey
       /\ ast[2] \in DOMAIN iv => value = iv[ast[2]]
       /\ ast[2] \notin DOMAIN iv => value = Value_Null
  /\ (pc = "called" /\ ast = AstNode_Null) => value = Value_Null

C5_Witness ==
  /\ pc = "called"
  /\ ast = AstNode_Number(U8Max)
  /\ U8Max \in DOMAIN iv
  /\ value = Value_Bool(TRUE)

(***************************************************************************)
(* Claims about the pipeline (SpecPipeline).                               *)
(***************************************************************************)
\* the usual meaning of the operator a comparison token is written with
Holds(op, a, b) ==
  CASE op = Token_Eq -> a = b
    [] op = Token_Nq -> a # b
    [] op = Token_Gt -> a > b
    [] op = Token_Ge -> a >= b
    [] op = Token_Lt -> a < b
    [] op = Token_Le -> a <= b

\* C6: for each operator OP of =, <>, >, >=, <, <=, the text "if(1 OP 2;1;2)"
\* parses, and evaluated with numbers a and b in slots 1 and 2 it returns the
\* value of slot 1, read by the then-branch, when a OP b holds and the value of
\* slot 2, read by the else-branch, otherwise.
C6_OperatorTextsEndToEnd ==
  \A op \in ComparisonTokens :
    input = OperatorText(op) =>
      /\ pc = "parsed" => result.ok
      /\ (/\ pc = "called"
          /\ {1, 2} \subseteq DOMAIN iv
          /\ IsNumber(iv[1])
          /\ IsNumber(iv[2])) =>
           /\ value = IF Holds(op, iv[1][2], iv[2][2]) THEN iv[1] ELSE iv[2]
           /\ Invoked(<<2>>) <=> Holds(op, iv[1][2], iv[2][2])
           /\ Invoked(<<3>>) <=> ~Holds(op, iv[1][2], iv[2][2])

C6_Witness ==
  /\ pc = "called"
  /\ input = OperatorText(Token_Ge)
  /\ {1, 2} \subseteq DOMAIN iv
  /\ IsNumber(iv[1])
  /\ iv[1] = iv[2]
  /\ ast[2][1] = "Ge"
  /\ value = iv[1]
  /\ Invoked(<<2>>)

(***************************************************************************)
(* Claims about the parser (SpecParse).                                    *)
(***************************************************************************)
\* the tokens of the text before the first Eof or Undef
Body == LET tokens == tokenize(input) IN SubSeq(tokens, 1, Len(tokens) - 1)

IsComparisonAt(s, i) ==
  /\ i + 2 <= Len(s)
  /\ IsValueToken(s[i])
  /\ s[i + 1] \in ComparisonTokens
  /\ IsValueToken(s[i + 2])

ComparisonAt(s, i) == AstNode_Binary(s[i + 1][1], ValueNode(s[i]), ValueNode(s[i + 2]))

RECURSIVE ChainLength(_, _)
\* the number of comparisons of the longest run  comparison {keyword comparison}
\* that starts at token i of s
ChainLength(s, i) ==
  IF ~IsComparisonAt(s, i) THEN 0
  ELSE IF i + 3 <= Len(s) /\ s[i + 3] \in {Token_And, Token_Or} /\ IsComparisonAt(s, i + 4)
  THEN 1 + ChainLength(s, i + 4)
  ELSE 1

\* the text is  if ( c1 k c2 k ... cn ;  with n >= 2 and no parentheses among the ci
IsChainStatement(s) ==
  /\ Len(s) >= 2
  /\ SubSeq(s, 1, 2) = <<Token_If, Token_LeftParen>>
  /\ ChainLength(s, 3) >= 2
  /\ 4 * ChainLength(s, 3) + 2 <= Len(s)
  /\ s[4 * ChainLength(s, 3) + 2] = Token_Semicolon

ChainKeywords(s) == {s[4 * k + 2] : k \in 1..(ChainLength(s, 3) - 1)}

ChainComparisons(s) == [k \in 1..ChainLength(s, 3) |-> ComparisonAt(s, 4 * k - 1)]

\* the chain is followed by  ; value ; value )
HasValueBranches(s) ==
  LET semi == 4 * ChainLength(s, 3) + 2 IN
  /\ semi + 4 <= Len(s)
  /\ IsValueToken(s[semi + 1])
  /\ s[semi + 2] = Token_Semicolon
  /\ IsValueToken(s[semi + 3])
  /\ s[semi + 4] = Token_RightParen

RECURSIVE LeftLeaning(_, _)
\* Op(...Op(Op(n1, n2), n3)..., nk)
LeftLeaning(tag, nodes) ==
  IF Len(nodes) = 1
  THEN nodes[1]
  ELSE AstNode_Binary(tag, LeftLeaning(tag, SubSeq(nodes, 1, Len(nodes) - 1)), nodes[Len(nodes)])

\* the tokens body of a parsed text, when a chain of one keyword, gave the left-leaning tree
LeftAssociativeIn(body) ==
  (/\ pc = "parsed"
   /\ IsChainStatement(body)
   /\ Cardinality(ChainKeywords(body)) = 1) =>
    LET tag == IF ChainKeywords(body) = {Token_Or} THEN "Or" ELSE "And" IN
    /\ HasValueBranches(body) => result.ok
    /\ result.ok => result.node[2] = LeftLeaning(tag, ChainComparisons(body))

\* C7: a condition of n >= 2 comparisons joined by the same keyword (all `or`,
\* or all `and`) parses to the left-leaning tree Op(...Op(Op(c1,c2),c3)...,cn).
C7_LeftAssociative == LeftAssociativeIn(Body)

C7_Witness ==
  /\ pc = "parsed"
  /\ IsChainStatement(Body)
  /\ ChainKeywords(Body) = {Token_Or}
  /\ ChainLength(Body, 3) = 3
  /\ result.ok
  /\ ChainComparisons(Body)[1] # ChainComparisons(Body)[3]
  /\ result.node[2] = AstNode_Binary("Or",
                        AstNode_Binary("Or", ChainComparisons(Body)[1], ChainComparisons(Body)[2]),
                        ChainComparisons(Body)[3])

RECURSIVE AndRuns(_, _, _, _)
\* the And subtrees of the chain: comparison k onwards, `run` being the
\* comparisons of the run of `and` that comparison k continues
AndRuns(s, k, run, done) ==
  IF k > ChainLength(s, 3)
  THEN Append(done, LeftLeaning("And", run))
  ELSE IF s[4 * k - 2] = Token_Or
  THEN AndRuns(s, k + 1, <<ComparisonAt(s, 4 * k - 1)>>, Append(done, LeftLeaning("And", run)))
  ELSE AndRuns(s, k + 1, Append(run, ComparisonAt(s, 4 * k - 1)), done)

\* the tokens body of a parsed text, when a chain of both keywords, gave Or over And subtrees
AndBindsTighterIn(body) ==
  (/\ pc = "parsed"
   /\ IsChainStatement(body)
   /\ ChainKeywords(body) = {Token_And, Token_Or}) =>
    /\ HasValueBranches(body) => result.ok
    /\ result.ok =>
         result.node[2] = LeftLeaning("Or", AndRuns(body, 2, <<ComparisonAt(body, 3)>>, <<>>))

\* C8: in an unparenthesized condition mixing `and` and `or`, every maximal run
\* of comparisons joined by `and` becomes one And subtree and these subtrees are
\* the operands of the Or nodes, whichever keyword comes first.
C8_AndBindsTighter == AndBindsTighterIn(Body)

C8_Witness ==
  /\ pc = "parsed"
  /\ IsChainStatement(Body)
  /\ ChainLength(Body, 3) = 3
  /\ Body[6] = Token_Or
  /\ Body[10] = Token_And
  /\ result.ok
  /\ result.node[2] = AstNode_Binary("Or", ComparisonAt(Body, 3),
                        AstNode_Binary("And", ComparisonAt(Body, 7), ComparisonAt(Body, 11)))

RECURSIVE MatchingParen(_, _, _)
\* the index of the RightParen that closes the LeftParen before token i of s,
\* depth being the number of parentheses open at token i; 0 when there is none
MatchingParen(s, i, depth) ==
  IF i > Len(s) THEN 0
  ELSE IF s[i] = Token_RightParen
  THEN IF depth = 1 THEN i ELSE MatchingParen(s, i + 1, depth - 1)
  ELSE IF s[i] = Token_LeftParen THEN MatchingParen(s, i + 1, depth + 1)
  ELSE MatchingParen(s, i + 1, depth)

\* the text is  if ( ( X ) ; ...  : the whole condition is inside parentheses
IsWrappedCondition(s) ==
  /\ Len(s) >= 3
  /\ SubSeq(s, 1, 3) = <<Token_If, Token_LeftParen, Token_LeftParen>>
  /\ MatchingParen(s, 4, 1) # 0
  /\ MatchingParen(s, 4, 1) < Len(s)
  /\ s[MatchingParen(s, 4, 1) + 1] = Token_Semicolon

\* the text without the parentheses around its condition
Unwrapped(s) ==
  LET close == MatchingParen(s, 4, 1) IN
  SubSeq(s, 1, 2) \o SubSeq(s, 4, close - 1) \o SubSeq(s, close + 1, Len(s))

\* the text is  if ( a and ( b or c ) ; value ; value )  for comparisons a, b, c
IsAndOfParenthesizedOr(s) ==
  /\ Len(s) >= 21
  /\ SubSeq(s, 1, 2) = <<Token_If, Token_LeftParen>>
  /\ IsComparisonAt(s, 3)
  /\ s[6] = Token_And
  /\ s[7] = Token_LeftParen
  /\ IsComparisonAt(s, 8)
  /\ s[11] = Token_Or
  /\ IsComparisonAt(s, 12)
  /\ s[15] = Token_RightParen
  /\ s[16] = Token_Semicolon
  /\ IsValueToken(s[17])
  /\ s[18] = Token_Semicolon
  /\ IsValueToken(s[19])
  /\ s[20] = Token_RightParen

\* the parentheses in the tokens body of a parsed text left no node
ParenthesesLeaveNoNodeIn(body) ==
  pc = "parsed" =>
    /\ IsWrappedCondition(body) =>
         LET plain == parse(Render(Unwrapped(body)), 0) IN
         plain.ok => (result.ok /\ result.node = plain.node)
    /\ IsAndOfParenthesizedOr(body) =>
         /\ result.ok
         /\ result.node[2] = AstNode_Binary("And", ComparisonAt(body, 3),
                               AstNode_Binary("Or", ComparisonAt(body, 8), ComparisonAt(body, 12)))

StatementPrefixes(s) ==
  {n \in 1..Len(s) : s[n] = Token_RightParen /\ DerivedStatement(SubSeq(s, 1, n)) # {}}

\* the parse of the text with the tokens body agrees with the grammar
ParserAcceptsTheGrammarIn(body) ==
  pc = "parsed" =>
    /\ result.ok <=> StatementPrefixes(body) # {}
    /\ result.ok =>
         \A n \in StatementPrefixes(body) :
           DerivedStatement(SubSeq(body, 1, n)) = {result.node}

\* C10: Parser::parse returns Ok if and only if some prefix of the token
\* sequence is derivable from `statement`, and the AST returned is the one that
\* derivation denotes.
C10_ParserAcceptsTheGrammar == ParserAcceptsTheGrammarIn(Body)

C10_Witness ==
  /\ pc = "parsed"
  /\ result.ok
  /\ result.node[4][1] = "If"
  /\ result.node[2][1] = "Ge"
  /\ StatementPrefixes(Body) = {Len(Body)}

\* the index of the first Semicolon of s, or Len(s) + 1 when it has none
FirstSemicolon(s) ==
  IF Positions(s, Token_Semicolon) = {}
  THEN Len(s) + 1
  ELSE CHOOSE i \in Positions(s, Token_Semicolon) :
         \A j \in Positions(s, Token_Semicolon) : i <= j

\* the left operands of the condition of s that no comparison token follows:
\* a value right after `(`, `and` or `or`, before the first `;`
OperatorSlotsMissed(s) ==
  {k \in 3..(FirstSemicolon(s) - 1) :
     /\ IsValueToken(s[k])
     /\ s[k - 1] \in {Token_LeftParen, Token_And, Token_Or}
     /\ (k = Len(s) \/ s[k + 1] \notin ComparisonTokens)}

\* the parse of the text with the tokens body failed if an operator slot is missed
MalformedComparisonFailsIn(body) ==
  (/\ pc = "parsed"
   /\ Len(body) >= 3
   /\ SubSeq(body, 1, 2) = <<Token_If, Token_LeftParen>>
   /\ OperatorSlotsMissed(body) # {}) =>
    /\ ~result.ok
    /\ result.node = NoAst
    /\ result.err # NoErr

\* C11: a text whose condition has a value followed by anything but one of
\* =, <>, >, >=, <, <= in the operator slot (two values in a row included)
\* fails to parse: Parser::parse returns Err and no AST.
C11_MalformedComparisonFails == MalformedComparisonFailsIn(Body)

C11_Witness ==
  /\ pc = "parsed"
  /\ Len(Body) >= 10
  /\ SubSeq(Body, 1, 2) = <<Token_If, Token_LeftParen>>
  /\ IsValueToken(Body[3])
  /\ IsValueToken(Body[4])
  /\ IsValueToken(Body[5])
  /\ Body[6] = Token_Semicolon
  /\ 3 \in OperatorSlotsMissed(Body)
  /\ ~result.ok
  /\ result.err[1] = "expected token"

RECURSIVE NumeralValue(_, _)
\* the value of a run of digits
NumeralValue(digits, acc) ==
  IF digits = <<>>
  THEN acc
  ELSE NumeralValue(Tail(digits), acc * 10 + DigitValue(Head(digits)))

\* the cursor positions of text where a numeral of value 256 or greater starts
BigNumeralStarts(text) ==
  {i \in 0..(Len(text) - 1) :
     /\ is_digit(text[i + 1])
     /\ (i = 0 \/ ~is_digit(text[i]))
     /\ NumeralValue(consume_digits(text, i, <<>>).digits, 0) > U8Max}

\* C12 as stated: a text with a numeral of value 256 or greater fails to
\* parse, wherever in the text the numeral is.
C12_NumeralAnywhereFails ==
  (pc = "parsed" /\ BigNumeralStarts(input) # {}) => ~result.ok

\* the parse failed on a numeral above 255 inside the statement: starts are
\* the cursor positions of such numerals, prefixes the statements of the
\* grammar the tokens of the text begin with
NumeralInsideStatementFailsIn(starts, prefixes) ==
  pc = "parsed" =>
    /\ result.ok => \A i \in starts : i >= result.position
    /\ (starts # {} /\ prefixes = {}) => ~result.ok
    /\ (starts = {} /\ prefixes # {}) => result.ok

\* C12: a text with a numeral of value 256 or greater before the closing `)`
\* of the outermost if expression fails to parse: when the parse is Ok every
\* such numeral starts after the place the parser stopped at. Numerals up to
\* 255 are indices: a statement of the grammar written with them parses.
C12_NumeralInsideStatementFails ==
  NumeralInsideStatementFailsIn(BigNumeralStarts(input), StatementPrefixes(Body))

C12_Witness ==
  /\ pc = "parsed"
  /\ BigNumeralStarts(input) # {}
  /\ \E i \in BigNumeralStarts(input) : i > 2 /\ i < Len(input) - 3
  /\ Len(Body) >= 2
  /\ ~result.ok
  /\ \E n \in 1..Len(tokenize(input)) : tokenize(input)[n] = Token_Undef

\* character strings put after a text
Suffixes ==
  {<<" ">>, <<")">>, <<";">>, <<":">>, <<"1">>, <<"=">>, <<"a">>,
   <<"2", "5", "6">>, <<" ", "i", "f", "(">>, <<")", " ", "o", "r", " ", "1">>}

\* C13: when a text parses to an AST, the text followed by any character
\* string parses too and to the same AST, the parser stopping at the same place.
C13_TrailingInputIgnored ==
  (pc = "parsed" /\ result.ok) =>
    \A s \in Suffixes : parse(input \o s, 0) = result

C13_Witness ==
  /\ pc = "parsed"
  /\ result.ok
  /\ result.position = Len(input)
  /\ result.node[4][1] = "If"
  /\ parse(input \o <<")", " ", "o", "r", " ", "1">>, 0) = result

(***************************************************************************)
(* Claims about the parser's rules (SpecRules).                            *)
(***************************************************************************)
RuleNames ==
  {"consume_token", "parse_value", "parse_comparison", "parse_conjunction",
   "parse_disjunction", "parse_condition", "parse_expression", "parse_if_expression"}

\* C14 as stated: whenever any rule returns an error, the cursor at return is
\* the cursor at the moment the rule was entered.
C14_EveryRuleRestores ==
  [][(pc' \in RuleNames /\ ~result'.ok) => position' = position]_vars

\* C14: whenever parse_value, consume_token or parse_expression returns an
\* error, the cursor at return is the cursor at the moment the rule was entered.
C14_TryingRulesRestore ==
  [][(pc' \in {"parse_value", "consume_token", "parse_expression"} /\ ~result'.ok)
       => position' = position]_vars

C14_Witness ==
  /\ pc = "parse_expression"
  /\ ~result.ok
  /\ result.err = <<"expected value or if expression">>
  /\ position > 0
  /\ parse_if_expression(input, position).position > position

(***************************************************************************)
(* Claims about the messages of the parser's errors (SpecParse).           *)
(***************************************************************************)
ExpectedTokens ==
  {Token_If, Token_LeftParen, Token_RightParen, Token_Semicolon, Token_Or, Token_And}

\* the token the lexer returns at the cursor the failed parse left behind
TokenAtFailure == next_token(input, result.position).token

\* the message of consume_token: an expected token and the token met instead
NamesExpectedAndFound ==
  \E expected \in ExpectedTokens :
    /\ expected # TokenAtFailure
    /\ result.err = <<"expected token", expected, "actual token", TokenAtFailure>>

\* the message of parse_expression: the two expected forms and no token
NamesExpectedFormsOnly ==
  /\ result.err = <<"expected value or if expression">>
  /\ TokenAtFailure \notin {Token_Null} \cup {<<"Number", n>> : n \in 0..U8Max}
  /\ ~parse_if_expression(input, result.position).ok

\* C15 as stated: every error returned by parse carries a message that states
\* the construct that was expected and the token that was encountered at the
\* failure point.
C15_EveryErrorNamesFoundToken ==
  (pc = "parsed" /\ ~result.ok) => NamesExpectedAndFound

\* C15: every error returned by parse states what was expected; it also names
\* the token encountered at the failure point, except when the failure is in
\* a then/else expression, where the message names the two expected forms
\* (value, if expression) and no token.
C15_ErrorNamesExpected ==
  (pc = "parsed" /\ ~result.ok) => (NamesExpectedAndFound \/ NamesExpectedFormsOnly)

\* a `>` where the then expression is expected, as in "if(3 <> null;>;2)"
C15_Witness ==
  /\ pc = "parsed"
  /\ ~result.ok
  /\ NamesExpectedFormsOnly
  /\ TokenAtFailure = Token_Gt
  /\ result.position > 0

(***************************************************************************)
(* Claims about the lexer (SpecLexer).                                     *)
(***************************************************************************)
\* tab .. carriage return, and the space
WhitespaceChars == {"\t", "\n", "\f", "\r", " "}

OnlyWhitespaceFrom(text, p) == \A i \in (p + 1)..Len(text) : text[i] \in WhitespaceChars

\* the cursor of the first character at or after p that is not whitespace
FirstVisible(text, p) ==
  CHOOSE q \in p..(Len(text) - 1) :
    /\ text[q + 1] \notin WhitespaceChars
    /\ \A i \in (p + 1)..q : text[i] \in WhitespaceChars

\* the keywords, operators and punctuation
FixedTokens ==
  {Token_Null, Token_And, Token_If, Token_Or, Token_Le, Token_Ge, Token_Nq, Token_Eq,
   Token_Lt, Token_Gt, Token_Semicolon, Token_LeftParen, Token_RightParen}

StartsWith(text, p, lexeme) ==
  /\ p + Len(lexeme) <= Len(text)
  /\ SubSeq(text, p + 1, p + Len(lexeme)) = lexeme

\* the cursor after the digits that start at p
DigitRunEnd(text, p) ==
  CHOOSE q \in p..Len(text) :
    /\ \A i \in (p + 1)..q : is_digit(text[i])
    /\ (q = Len(text) \/ ~is_digit(text[q + 1]))

\* a numeral is the whole run of digits after a non-zero digit
NumeralAt(text, p) == p < Len(text) /\ is_non_zero_digit(text[p + 1])

NumeralValueAt(text, p) == NumeralValue(SubSeq(text, p + 1, DigitRunEnd(text, p)), 0)

RepresentableNumeralAt(text, p) == NumeralAt(text, p) /\ NumeralValueAt(text, p) <= U8Max

RecognizedAt(text, p) ==
  \/ \E t \in FixedTokens : StartsWith(text, p, Lexeme(t))
  \/ RepresentableNumeralAt(text, p)

\* the recognized token that starts at p (the longest, of `<` `<=` `<>` and `>` `>=`)
\* and the cursor after it
TokenStartingAt(text, p) ==
  IF RepresentableNumeralAt(text, p)
  THEN [token |-> Token_Number(NumeralValueAt(text, p)), position |-> DigitRunEnd(text, p)]
  ELSE LET t == CHOOSE t \in FixedTokens :
                  /\ StartsWith(text, p, Lexeme(t))
                  /\ \A u \in FixedTokens :
                       StartsWith(text, p, Lexeme(u)) => Len(Lexeme(u)) <= Len(Lexeme(t))
       IN [token |-> t, position |-> p + Len(Lexeme(t))]

\* C16: next_token returns Eof exactly when every character from the cursor
\* to the end of the input is whitespace (nothing remaining included); it
\* returns Undef exactly when a character that is not whitespace remains and
\* no keyword, operator, punctuation or representable numeral starts at the
\* first such character; otherwise it returns the one recognized token that
\* starts there and leaves the cursor after it.
C16_EofUndefOrOneToken ==
  pc = "next_token" =>
    /\ (value.token = Token_Eof) <=> OnlyWhitespaceFrom(input, value.at)
    /\ (value.token = Token_Undef) <=>
         /\ ~OnlyWhitespaceFrom(input, value.at)
         /\ ~RecognizedAt(input, FirstVisible(input, value.at))
    /\ value.token \notin {Token_Eof, Token_Undef} =>
         /\ value.token = TokenStartingAt(input, FirstVisible(input, value.at)).token
         /\ position = TokenStartingAt(input, FirstVisible(input, value.at)).position

\* Eof returned with whitespace of three kinds between the cursor and the end
C16_Witness ==
  /\ pc = "next_token"
  /\ value.token = Token_Eof
  /\ value.at = 0
  /\ Len(input) = 4
  /\ {input[i] : i \in 1..Len(input)} = {"\t", "\n", " ", "\r"}

\* C17: set_position(p) sets the cursor to p when 0 <= p < length of the
\* input, and get_position then returns p; for every p >= length (p = length
\* and any p on an empty input included) it leaves the cursor unchanged; a
\* next_token call at a cursor returns the token, and leaves the cursor, that
\* the first next_token call at that cursor did.
C17_SetPositionRestores ==
  /\ pc = "set_position" =>
       position = (IF value.wanted < Len(input) THEN value.wanted ELSE value.at)
  /\ pc = "get_position" => (value.returned = position /\ position = value.at)
  /\ pc = "next_token" =>
       \E c \in calls : c.at = value.at /\ c.token = value.token /\ c.position = position

\* set_position(length) after the cursor was moved back: the cursor stays
C17_Witness ==
  /\ pc = "set_position"
  /\ value.wanted = Len(input)
  /\ value.at < Len(input)
  /\ value.at > 0
  /\ position = value.at
  /\ \E c \in calls : c.at = value.at

\* the numeral that is met by a next_token call at cursor p does not fit the index
OverflowingNumeralMet(text, p) ==
  /\ ~OnlyWhitespaceFrom(text, p)
  /\ NumeralAt(text, FirstVisible(text, p))
  /\ NumeralValueAt(text, FirstVisible(text, p)) > U8Max

\* C18: when next_token meets a numeral that starts with a non-zero digit
\* and is above 255, it returns Undef and the cursor is not moved past the
\* digits, so a repeated next_token call returns Undef again.
C18_OverflowNotConsumed ==
  (pc = "next_token" /\ OverflowingNumeralMet(input, value.at)) =>
    /\ value.token = Token_Undef
    /\ position <= FirstVisible(input, value.at)
    /\ next_token(input, position).token = Token_Undef

(***************************************************************************)
(* Claims about the calls the evaluators of And and Or make (SpecEval).    *)
(***************************************************************************)
\* C20 as stated: the evaluators of And and Or invoke both operand
\* evaluators on every call, whatever the left operand evaluated to.
C20_BothOperandsInvoked ==
  (pc = "called" /\ ast[1] \in {"And", "Or"}) => (Invoked(<<1>>) /\ Invoked(<<2>>))

\* C20: the evaluators of And and Or invoke the left operand's evaluator on
\* every call, and the right operand's evaluator exactly when the left
\* operand evaluated to a Bool, Bool(true) and Bool(false) alike; when the
\* left operand evaluated to Null or to a Number the result is Null.
C20_RightInvokedAfterBool ==
  (pc = "called" /\ ast[1] \in {"And", "Or"}) =>
    /\ Invoked(<<1>>)
    /\ Invoked(<<2>>) <=> IsBool(Operand(1))
    /\ ~IsBool(Operand(1)) => value = Value_Null

\* Or with a true left operand: the right operand is invoked all the same
C20_Witness ==
  /\ pc = "called"
  /\ ast[1] = "Or"
  /\ Operand(1) = Value_Bool(TRUE)
  /\ Operand(2) = Value_Bool(FALSE)
  /\ Invoked(<<2>>)
  /\ value = Value_Bool(TRUE)

(***************************************************************************)
(* Claims about the choice points of the parser (SpecRules).               *)
(***************************************************************************)
\* `(` condition `)` read from the cursor pos
ParenthesizedFrom(text, pos) ==
  Try(consume_token(text, pos, Token_LeftParen), LAMBDA left_paren :
  Try(parse_condition(text, left_paren.position), LAMBDA node :
  Try(consume_token(text, node.position, Token_RightParen), LAMBDA right_paren :
    Ok(node.node, right_paren.position))))

\* C21: when parse_comparison fails in parse_conjunction, whatever it
\* consumed, parse_conjunction returns what the parenthesised alternative
\* returns when read from the cursor parse_conjunction was entered at; when
\* parse_value fails in parse_expression, parse_expression returns what
\* parse_if_expression returns from the entry cursor if that is Ok, and
\* otherwise fails with the cursor back at the entry cursor.
C21_AlternativesFromEntry ==
  [][/\ (pc' = "parse_conjunction" /\ ~parse_comparison(input, position).ok)
          => (result' = ParenthesizedFrom(input, position) /\ position' = result'.position)
     /\ (pc' = "parse_expression" /\ ~parse_value(input, position).ok)
          => IF parse_if_expression(input, position).ok
             THEN result' = parse_if_expression(input, position)
             ELSE ~result'.ok /\ position' = position]_vars

\* parse_conjunction failed on a value that no comparison follows: the
\* parenthesised alternative met that value, not what the comparison stopped at
C21_Witness ==
  /\ pc = "parse_conjunction"
  /\ ~result.ok
  /\ result.err[1] = "expected token"
  /\ result.err[2] = Token_LeftParen
  /\ result.err[4][1] = "Number"
  /\ result.err[4] = next_token(input, position).token
  /\ ~parse_comparison(input, position).ok
  /\ parse_comparison(input, position).position > next_token(input, position).position

(***************************************************************************)
(* Claims about the lexer's cursor (SpecLexer).                            *)
(***************************************************************************)
\* C22: after Lexer::new and after any sequence of next_token and
\* set_position calls the cursor is between 0 and the length of the input;
\* next_token never moves the cursor backwards and moves it by at least one
\* character whenever it returns a token other than Eof and Undef, also when
\* the token ends the input and the lookahead window reaches past the end.
C22_CursorWithinInput ==
  /\ position \in 0..Len(input)
  /\ pc = "next_token" =>
       /\ position >= value.at
       /\ value.token \notin {Token_Eof, Token_Undef} => position > value.at
  /\ pc = "set_position" => position \in {value.at, value.wanted}

\* `or` read as the last two characters of the input, after a space
C22_Witness ==
  /\ pc = "next_token"
  /\ value.token = Token_Or
  /\ value.at = 0
  /\ position = Len(input)
  /\ Len(input) < value.at + BUF_SIZE

(***************************************************************************)
(* Claims about the shape of the parsed AST (SpecParse).                   *)
(***************************************************************************)
ComparisonTags == {"Eq", "Nq", "Ge", "Gt", "Le", "Lt"}

IsLeafNode(n) ==
  \/ n = AstNode_Null
  \/ (Len(n) = 2 /\ n[1] = "Number" /\ n[2] \in IndexKey)

RECURSIVE IsConditionTree(_)
\* And, Or over comparisons of leaves
IsConditionTree(n) ==
  IF n[1] \in {"And", "Or"}
  THEN Len(n) = 3 /\ IsConditionTree(n[2]) /\ IsConditionTree(n[3])
  ELSE n[1] \in ComparisonTags /\ Len(n) = 3 /\ IsLeafNode(n[2]) /\ IsLeafNode(n[3])

RECURSIVE IsIfTree(_)
\* If over a condition and two branches, each a leaf or another If
IsIfTree(n) ==
  /\ n[1] = "If"
  /\ Len(n) = 4
  /\ IsConditionTree(n[2])
  /\ \A i \in {3, 4} : IsLeafNode(n[i]) \/ IsIfTree(n[i])

\* C23: every AST a successful parse returns is well-typed: the root is an
\* If; the first child of every If is built only from And, Or and the six
\* comparisons; the operands of And and Or are And, Or or comparisons; the
\* operands of a comparison are Number or Null leaves; the second and third
\* child of every If is a Number leaf, a Null leaf or another If.
C23_AstWellTyped ==
  (pc = "parsed" /\ result.ok) => IsIfTree(result.node)

\* an If with a comparison for its condition, another If for its then-branch
\* and a leaf for its else-branch
C23_Witness ==
  /\ pc = "parsed"
  /\ result.ok
  /\ result.node[2][1] \in ComparisonTags
  /\ result.node[3][1] = "If"
  /\ result.node[3][2][1] \in ComparisonTags
  /\ IsLeafNode(result.node[4])

(***************************************************************************)
(* Claims about the values statements return (SpecStatements).             *)
(***************************************************************************)
RECURSIVE BranchLeaves(_)
\* the leaves in then/else place of the Ifs of a statement
BranchLeaves(n) ==
  IF n[1] = "If" THEN BranchLeaves(n[3]) \cup BranchLeaves(n[4]) ELSE {n}

\* C24: the value the evaluator of a parsed statement returns is Null or the
\* environment's value for an index that is a then/else leaf of an If of the
\* statement; a Bool computed by a comparison or by and/or is never returned:
\* when the environment holds only Numbers the result is a Number or Null.
C24_ReturnsBranchLeaf ==
  pc = "called" =>
    /\ \/ value = Value_Null
       \/ \E leaf \in BranchLeaves(ast) :
            /\ leaf[1] = "Number"
            /\ leaf[2] \in DOMAIN iv
            /\ value = iv[leaf[2]]
    /\ (\A k \in DOMAIN iv : IsNumber(iv[k])) => (IsNumber(value) \/ IsNull(value))

\* the else-branch of a nested If, reached through two conditions that
\* evaluated to Bools, returns the Number of its slot
C24_Witness ==
  /\ pc = "called"
  /\ ast[3][1] = "If"
  /\ Invoked(<<2, 3>>)
  /\ \A k \in DOMAIN iv : IsNumber(iv[k])
  /\ IsNumber(value)
  /\ value = iv[ast[3][4][2]]

(***************************************************************************)
(* Claims about the slots an evaluator reads (SpecEval).                   *)
(***************************************************************************)
RECURSIVE NumberKeys(_)
\* the indices in the Number leaves of a node
NumberKeys(n) ==
  IF n[1] = "Number" THEN {n[2]}
  ELSE IF n[1] = "Null" THEN {}
  ELSE UNION {NumberKeys(n[i]) : i \in 2..Len(n)}

\* same presence and same value under every index of K
AgreeOn(e1, e2, K) ==
  \A k \in K :
    /\ k \in DOMAIN e1 <=> k \in DOMAIN e2
    /\ k \in DOMAIN e1 => e1[k] = e2[k]

\* the environment e without the indices outside K
Restricted(e, K) == [k \in DOMAIN e \cap K |-> e[k]]

\* C25: for every AST and every two environments that agree, in presence and
\* in value, on every index in a Number leaf of the AST, the evaluator
\* returns the same value for both, whatever they hold under other indices.
\* Two environments agree on those indices exactly when they are the same
\* once restricted to them, and every environment is called with every AST:
\* the claim is that each call returns what the call with the restricted
\* environment returns.
C25_DependsOnNamedSlots ==
  pc = "called" =>
    /\ AgreeOn(iv, Restricted(iv, NumberKeys(ast)), NumberKeys(ast))
    /\ build_evaluator(ast, Restricted(iv, NumberKeys(ast)), <<>>).v = value

\* a comparison of two slots called with an environment that holds a third
C25_Witness ==
  /\ pc = "called"
  /\ ast[1] = "Lt"
  /\ NumberKeys(ast) = {0, 1}
  /\ DOMAIN iv = {0, 1, U8Max}
  /\ value = Value_Bool(TRUE)
  /\ Restricted(iv, NumberKeys(ast)) # iv
  /\ \E other \in IndexedValues :
       /\ other # iv
       /\ AgreeOn(iv, other, NumberKeys(ast))
       /\ U8Max \in DOMAIN other
       /\ build_evaluator(ast, other, <<>>).v = value

(***************************************************************************)
(* Claims about termination (SpecParse).                                   *)
(***************************************************************************)
\* the most Lexer::next_token calls a parse of the text makes
LexerCallsBound(text) == 3 * (Len(text) + 1)

\* no line occurs twice in a trace: no rule is entered twice at one cursor
TraceWithoutRepetition(t) ==
  \A i \in 1..Len(t) : \A j \in 1..Len(t) : t[i] = t[j] => i = j

\* tokens is what next_token returned, called from position 0 until Eof or Undef
LexerStops(text, tokens) ==
  /\ Len(tokens) <= Len(text) + 1
  /\ tokens[Len(tokens)] \in {Token_Eof, Token_Undef}

\* a parse with the traced result t terminated in a bounded number of steps
Terminated(text, t) ==
  /\ t.lexed <= LexerCallsBound(text)
  /\ \A i \in 1..Len(t.loops) : t.loops[i][3] > t.loops[i][2]
  /\ TraceWithoutRepetition(t.trace)
  /\ LexerStops(text, tokenize(text))

\* the traced rules returned Ok or Err and left the cursor as the rules did
TracedAs(t, r) == t.ok = r.ok /\ t.position = r.position

\* the traced parse t of the text is the parse r and terminated
TerminatedAs(text, t, r) == TracedAs(t, r) /\ Terminated(text, t)

\* C26: parsing terminates. A parse makes a bounded number of lexer calls
\* (at most three for every character and three more); every test of the
\* `or` loop of parse_condition and of the `and` loop of parse_disjunction
\* that goes on to another iteration has consumed a token; no rule is entered
\* twice at the same cursor, so no backtracking step repeats an attempt that
\* failed; and next_token called repeatedly from position 0 returns Eof or
\* Undef after at most length + 1 calls. The traced rules return Ok or Err
\* and leave the cursor exactly as the rules do.
C26_ParsingTerminates ==
  pc = "parsed" => TerminatedAs(input, traced_parse(input, 0), result)

\* a failed parse that backtracked in parse_conjunction and in
\* parse_expression after both loops had iterated
C26_Witness ==
  /\ pc = "parsed"
  /\ ~result.ok
  /\ \E i \in 1..Len(traced_parse(input, 0).loops) : traced_parse(input, 0).loops[i][1] = "or"
  /\ \E i \in 1..Len(traced_parse(input, 0).loops) : traced_parse(input, 0).loops[i][1] = "and"
  /\ \E i \in 1..Len(traced_parse(input, 0).trace) :
       traced_parse(input, 0).trace[i][1] = "expression"
  /\ traced_parse(input, 0).lexed > Len(tokenize(input))

====
